---- MODULE Spec2Model ----
(***************************************************************************)
(* A model of epub-to-obsidian: the archive reader (epub_parser.py), the   *)
(* HTML-to-text converter and document assembler (markdown_converter.py),  *)
(* the vault writer (obsidian_writer.py) and the batch command (cli.py).   *)
(*                                                                         *)
(* Text is a sequence of characters.  A character is a one-element string; *)
(* a few characters that a TLA+ string cannot hold are written by name     *)
(* ("NUL" is U+0000).  The pieces of the f-strings of the source that hold *)
(* no variable part are kept whole as single elements where their inside   *)
(* is never inspected by the code.                                         *)
(***************************************************************************)
EXTENDS Integers, Sequences, FiniteSets, TLC

VARIABLES
    \* ObsidianWriter._sanitize_filename applied to one input
    sf_pc, sf_in, sf_out,
    \* EPUBParser._extract_chapter_title applied to one document
    t_pc, t_item, t_num, t_out,
    \* EPUBParser.get_chapters: the spine, the position of the loop in it,
    \* the locals chapter_num and chapters
    p_pc, spine, p_i, chapter_num, chapters,
    \* MarkdownConverter._html_to_markdown: its argument, the scratch files
    \* that exist, the local temp_path, the return or exception that waits
    \* for the finally clause, what it returned, what it printed
    c_pc, c_html, tmp_files, temp_path, c_pending, c_ret, c_log,
    \* cli.batch: the archives found, the position of the loop, the locals
    \* successful and failed, the descriptions shown by the progress bar,
    \* the exit status of the command
    b_pc, epub_files, b_i, successful, failed, b_shown, exit_code,
    \* ObsidianWriter.write_book: what the parser gave (metadata, chapters,
    \* toc, the image items of the archive), include_images, the locals
    \* book_dir and idx, the directories made and the files written
    w_pc, w_metadata, w_chapters, w_toc, w_items, include_images, book_dir, w_idx,
    w_dirs, w_files,
    \* MarkdownConverter.convert_chapter from the return of _html_to_markdown
    \* on: the chapter record, the text _html_to_markdown returned, the local
    \* markdown_content after _post_process_markdown (m_content), the
    \* document returned
    m_pc, m_chapter, m_markdown, m_content, m_doc,
    \* ObsidianWriter._fix_navigation applied to one document: what the
    \* document was made of, the arguments content, chapter_idx and
    \* chapters, what it returned
    n_pc, n_origin, n_content, n_idx, n_chapters, n_out

sfVars == <<sf_pc, sf_in, sf_out>>
tVars == <<t_pc, t_item, t_num, t_out>>
pVars == <<p_pc, spine, p_i, chapter_num, chapters>>
cVars == <<c_pc, c_html, tmp_files, temp_path, c_pending, c_ret, c_log>>

bVars == <<b_pc, epub_files, b_i, successful, failed, b_shown, exit_code>>

wVars == <<w_pc, w_metadata, w_chapters, w_toc, w_items, include_images, book_dir, w_idx,
           w_dirs, w_files>>

mVars == <<m_pc, m_chapter, m_markdown, m_content, m_doc>>

nVars == <<n_pc, n_origin, n_content, n_idx, n_chapters, n_out>>

vars == <<sfVars, tVars, pVars, cVars, bVars, wVars, mVars, nVars>>

\* an optional value: None, or Some(x); TheValue(Some(x)) = x
None == <<>>
Some(x) == <<x>>
TheValue(opt) == opt[1]

\* the variables a specification does not use stay as they are here
SfIdle == sf_pc = "idle" /\ sf_in = <<>> /\ sf_out = <<>>
TIdle == t_pc = "idle" /\ t_item = None /\ t_num = 0 /\ t_out = <<>>
PIdle == p_pc = "idle" /\ spine = <<>> /\ p_i = 0 /\ chapter_num = 0 /\ chapters = <<>>
CIdle ==
    /\ c_pc = "idle" /\ c_html = None /\ tmp_files = {} /\ temp_path = None
    /\ c_pending = None /\ c_ret = None /\ c_log = <<>>

BIdle ==
    /\ b_pc = "idle" /\ epub_files = <<>> /\ b_i = 0 /\ successful = 0
    /\ failed = <<>> /\ b_shown = <<>> /\ exit_code = None

WIdle ==
    /\ w_pc = "idle" /\ w_metadata = <<>> /\ w_chapters = <<>> /\ w_toc = <<>>
    /\ w_items = <<>> /\ include_images = FALSE /\ book_dir = <<>> /\ w_idx = 0
    /\ w_dirs = {} /\ w_files = <<>>

MIdle ==
    /\ m_pc = "idle" /\ m_chapter = <<>> /\ m_markdown = <<>> /\ m_content = <<>>
    /\ m_doc = <<>>

NIdle ==
    /\ n_pc = "idle" /\ n_origin = <<>> /\ n_content = <<>> /\ n_idx = 0
    /\ n_chapters = <<>> /\ n_out = <<>>

\* what each specification leaves alone
SfOthersIdle == TIdle /\ PIdle /\ CIdle /\ BIdle /\ WIdle /\ MIdle /\ NIdle
TOthersIdle == SfIdle /\ PIdle /\ CIdle /\ BIdle /\ WIdle /\ MIdle /\ NIdle
POthersIdle == SfIdle /\ TIdle /\ CIdle /\ BIdle /\ WIdle /\ MIdle /\ NIdle
COthersIdle == SfIdle /\ TIdle /\ PIdle /\ BIdle /\ WIdle /\ MIdle /\ NIdle
BOthersIdle == SfIdle /\ TIdle /\ PIdle /\ CIdle /\ WIdle /\ MIdle /\ NIdle
WOthersIdle == SfIdle /\ TIdle /\ PIdle /\ CIdle /\ BIdle /\ MIdle /\ NIdle
sfOthers == <<tVars, pVars, cVars, bVars, wVars, mVars, nVars>>
tOthers == <<sfVars, pVars, cVars, bVars, wVars, mVars, nVars>>
pOthers == <<sfVars, tVars, cVars, bVars, wVars, mVars, nVars>>
cOthers == <<sfVars, tVars, pVars, bVars, wVars, mVars, nVars>>
bOthers == <<sfVars, tVars, pVars, cVars, wVars, mVars, nVars>>
wOthers == <<sfVars, tVars, pVars, cVars, bVars, mVars, nVars>>
MOthersIdle == SfIdle /\ TIdle /\ PIdle /\ CIdle /\ BIdle /\ WIdle /\ NIdle
mOthers == <<sfVars, tVars, pVars, cVars, bVars, wVars, nVars>>
NOthersIdle == SfIdle /\ TIdle /\ PIdle /\ CIdle /\ BIdle /\ WIdle /\ MIdle
nOthers == <<sfVars, tVars, pVars, cVars, bVars, wVars, mVars>>

-----------------------------------------------------------------------------
(* Characters and the str methods the code uses *)

NUL == "NUL"
BackTick == "BACKTICK"
NL == "\n"

\* Python's \s and str.strip(): the white-space characters of the alphabet
WhiteSpace == {" ", "\t", NL, "\r", "\f"}

Digits == {"0", "1", "2", "3", "4", "5", "6", "7", "8", "9"}

\* the character class [<>:"/\\|?*] of _sanitize_filename
ReservedChars == {"<", ">", ":", "\"", "/", "\\", "|", "?", "*"}

\* control characters of the alphabet (category Cc)
ControlChars == {NUL, "\t", NL, "\r", "\f"}

\* c repeated n times
Rep(c, n) == [i \in 1..n |-> c]

\* str.lstrip(set) / str.rstrip(set) / str.strip(set)
RECURSIVE LStripFrom(_, _, _)
LStripFrom(s, set, i) ==
    IF i > Len(s) THEN <<>>
    ELSE IF s[i] \in set THEN LStripFrom(s, set, i + 1)
    ELSE SubSeq(s, i, Len(s))

RECURSIVE RStripFrom(_, _, _)
RStripFrom(s, set, i) ==
    IF i < 1 THEN <<>>
    ELSE IF s[i] \in set THEN RStripFrom(s, set, i - 1)
    ELSE SubSeq(s, 1, i)

StripChars(s, set) == LStripFrom(RStripFrom(s, set, Len(s)), set, 1)

\* str.strip()
Strip(s) == StripChars(s, WhiteSpace)

\* re.sub(r'[set]', '', s)
RemoveChars(s, set, i) == SelectSeq(SubSeq(s, i, Len(s)), LAMBDA c : c \notin set)

\* re.sub(r'\s+', rep, s): every maximal run of white space becomes rep
\* (the first character of a run becomes rep, its other characters go),
\* here for the characters lo..hi of s
RECURSIVE SubWsRange(_, _, _, _)
SubWsRange(s, rep, lo, hi) ==
    IF lo > hi THEN <<>>
    ELSE IF lo = hi
         THEN IF s[lo] \in WhiteSpace
              THEN IF lo > 1 /\ s[lo - 1] \in WhiteSpace THEN <<>> ELSE rep
              ELSE <<s[lo]>>
    ELSE LET mid == (lo + hi) \div 2
         IN SubWsRange(s, rep, lo, mid) \o SubWsRange(s, rep, mid + 1, hi)

SubWsRuns(s, rep, i) == SubWsRange(s, rep, i, Len(s))

-----------------------------------------------------------------------------
(* ObsidianWriter._sanitize_filename *)

\* obsidian_writer.py:93-94, the length cap
FilenameCap == 200

sanitize_filename(filename) ==
    LET a == RemoveChars(filename, ReservedChars, 1)
        b == SubWsRuns(a, <<" ">>, 1)
        c == StripChars(b, {".", " "})
    IN IF Len(c) > FilenameCap THEN SubSeq(c, 1, FilenameCap) ELSE c

-----------------------------------------------------------------------------
(* A parsed HTML document (BeautifulSoup) and the archive's items *)


\* the decimal digits of a natural number (str(n), f"{n}")
DigitSeq == <<"0", "1", "2", "3", "4", "5", "6", "7", "8", "9">>

RECURSIVE Dec(_)
Dec(n) == IF n < 10 THEN <<DigitSeq[n + 1]>>
          ELSE Dec(n \div 10) \o <<DigitSeq[(n % 10) + 1]>>

LowerLetters == <<"a", "b", "c", "d", "e", "f", "g", "h", "i", "j", "k", "l", "m",
                  "n", "o", "p", "q", "r", "s", "t", "u", "v", "w", "x", "y", "z">>
UpperLetters == <<"A", "B", "C", "D", "E", "F", "G", "H", "I", "J", "K", "L", "M",
                  "N", "O", "P", "Q", "R", "S", "T", "U", "V", "W", "X", "Y", "Z">>

IsLower(c) == \E i \in 1..26 : LowerLetters[i] = c
IsUpper(c) == \E i \in 1..26 : UpperLetters[i] = c
IsLetter(c) == IsLower(c) \/ IsUpper(c)
ToUpper(c) == IF IsLower(c) THEN UpperLetters[CHOOSE i \in 1..26 : LowerLetters[i] = c] ELSE c
ToLower(c) == IF IsUpper(c) THEN LowerLetters[CHOOSE i \in 1..26 : UpperLetters[i] = c] ELSE c

\* str.title(): a letter that follows a letter is lower-cased, any other
\* letter is upper-cased
TitleCase(s) ==
    [i \in 1..Len(s) |->
        IF i > 1 /\ IsLetter(s[i - 1]) THEN ToLower(s[i]) ELSE ToUpper(s[i])]

\* str.isdigit()
IsDigitStr(s) == s # <<>> /\ \A i \in 1..Len(s) : s[i] \in Digits

\* the concatenation of a sequence of texts
RECURSIVE Concat(_)
Concat(ts) == IF ts = <<>> THEN <<>> ELSE Head(ts) \o Concat(Tail(ts))

\* A document is the sequence of its elements in document order; an element
\* is [tag, strings], strings being its text nodes in order.
\* Tag.get_text(strip=True): every text node stripped, the empty ones
\* dropped, the rest joined with nothing between them
RECURSIVE StrippedStrings(_)
StrippedStrings(strings) ==
    IF strings = <<>> THEN <<>>
    ELSE (IF Strip(Head(strings)) = <<>> THEN <<>> ELSE <<Strip(Head(strings))>>)
         \o StrippedStrings(Tail(strings))

get_text_strip(element) == Concat(StrippedStrings(element.strings))

\* soup.find(tag): the first element of that name, or None
find(soup, tag) ==
    IF \E i \in 1..Len(soup) : soup[i].tag = tag
    THEN Some(soup[CHOOSE i \in 1..Len(soup) :
                      /\ soup[i].tag = tag
                      /\ \A j \in 1..(i - 1) : soup[j].tag # tag])
    ELSE None

\* PurePath.name and PurePath.stem
RECURSIVE LastIndexOf(_, _, _)
LastIndexOf(s, c, i) ==
    IF i < 1 THEN 0 ELSE IF s[i] = c THEN i ELSE LastIndexOf(s, c, i - 1)

PathName(path) == SubSeq(path, LastIndexOf(path, "/", Len(path)) + 1, Len(path))

PathStem(path) ==
    LET name == PathName(path)
        i == LastIndexOf(name, ".", Len(name))
    IN IF 1 < i /\ i < Len(name) THEN SubSeq(name, 1, i - 1) ELSE name

\* the text f"Chapter {n}"
ChapterWord == <<"C", "h", "a", "p", "t", "e", "r">>
ChapterN(n) == ChapterWord \o <<" ">> \o Dec(n)

-----------------------------------------------------------------------------
(* EPUBParser._extract_chapter_title, _clean_html, _process_chapter *)

\* the heading found by one round of the loop over ['h1', 'h2', 'h3']
HeadingText(soup, tag) ==
    LET heading == find(soup, tag)
    IN IF heading # None /\ get_text_strip(TheValue(heading)) # <<>>
       THEN Some(get_text_strip(TheValue(heading))) ELSE None

\* FileNameTitle with the digit runs removed at both ends of the stem
FileNameTitle_both_ends(name) ==
    LET file_name == PathStem(name)
    IN IF file_name # <<>> /\ ~IsDigitStr(file_name)
       THEN LET spaced == [i \in 1..Len(file_name) |->
                             IF file_name[i] \in {"_", "-"} THEN " " ELSE file_name[i]]
                title == Strip(StripChars(spaced, Digits))
            IN IF title # <<>> THEN Some(TitleCase(title)) ELSE None
       ELSE None

\* lines 135-142: the title made from the file name, or None
FileNameTitle(name) ==
    LET file_name == PathStem(name)
    IN IF file_name # <<>> /\ ~IsDigitStr(file_name)
       THEN LET spaced == [i \in 1..Len(file_name) |->
                             IF file_name[i] \in {"_", "-"} THEN " " ELSE file_name[i]]
                title == Strip(RStripFrom(spaced, Digits, Len(spaced)))
            IN IF title # <<>> THEN Some(TitleCase(title)) ELSE None
       ELSE None

\* extract_chapter_title taking the first non-empty h1, h2 or h3 in
\* document order, whatever its level
extract_chapter_title_document_order(soup, item, num) ==
    LET hs == {i \in 1..Len(soup) :
                  soup[i].tag \in {"h1", "h2", "h3"} /\ get_text_strip(soup[i]) # <<>>}
        ts == {i \in 1..Len(soup) :
                  soup[i].tag = "title" /\ get_text_strip(soup[i]) # <<>>}
    IN IF hs # {} THEN get_text_strip(soup[CHOOSE i \in hs : \A j \in hs : i <= j])
       ELSE IF ts # {} THEN get_text_strip(soup[CHOOSE i \in ts : \A j \in ts : i <= j])
       ELSE IF FileNameTitle(item.file_name) # None
            THEN TheValue(FileNameTitle(item.file_name))
            ELSE ChapterN(num + 1)

extract_chapter_title(soup, item, num) ==
    IF HeadingText(soup, "h1") # None THEN TheValue(HeadingText(soup, "h1"))
    ELSE IF HeadingText(soup, "h2") # None THEN TheValue(HeadingText(soup, "h2"))
    ELSE IF HeadingText(soup, "h3") # None THEN TheValue(HeadingText(soup, "h3"))
    ELSE LET title_tag == find(soup, "title")
         IN IF title_tag # None /\ get_text_strip(TheValue(title_tag)) # <<>>
            THEN get_text_strip(TheValue(title_tag))
            ELSE IF FileNameTitle(item.file_name) # None
                 THEN TheValue(FileNameTitle(item.file_name))
                 ELSE ChapterN(num + 1)

RemovedTags == {"script", "style", "meta", "link"}

\* _clean_html: script, style, meta and link elements go, and so do the
\* paragraphs without text
RECURSIVE clean_html(_)
clean_html(soup) ==
    IF soup = <<>> THEN <<>>
    ELSE LET e == Head(soup)
         IN (IF e.tag \in RemovedTags \/ (e.tag = "p" /\ get_text_strip(e) = <<>>)
             THEN <<>> ELSE <<e>>) \o clean_html(Tail(soup))

\* soup.get_text(strip=True) of a whole document
RECURSIVE AllStrings(_)
AllStrings(soup) ==
    IF soup = <<>> THEN <<>> ELSE Head(soup).strings \o AllStrings(Tail(soup))

soup_text_strip(soup) == Concat(StrippedStrings(AllStrings(soup)))

\* is_kept without the test for empty text
is_kept_any_text(chapter_data) == chapter_data # None

\* line 84: the test that keeps a chapter
is_kept(chapter_data) ==
    chapter_data # None /\ Strip(TheValue(chapter_data).content) # <<>>

\* _process_chapter: the chapter record of one item, or None when anything
\* in it raises (item.fails: get_content or the HTML parser raises)
process_chapter(item, num) ==
    IF item.fails THEN None
    ELSE LET soup == item.elems
             title == extract_chapter_title(soup, item, num)
             cleaned == clean_html(soup)
         IN Some([number |-> num + 1,
                  title |-> title,
                  content_html |-> cleaned,
                  content |-> soup_text_strip(cleaned),
                  item_id |-> item.id,
                  file_name |-> item.file_name])

\* all texts over alphabet of length at most n
RECURSIVE TextsUpTo(_, _)
TextsUpTo(alphabet, n) ==
    IF n = 0 THEN {<<>>}
    ELSE LET shorter == TextsUpTo(alphabet, n - 1)
         IN shorter \cup {Append(t, c) : t \in shorter, c \in alphabet}

\* the longest short title tried
MaxNameLen == 3
\* how far around the length cap the long titles reach
MaxPad == 1

SfAlphabet == {"a", " ", ".", "?", "/", NUL, "\t"}
SfEnds == TextsUpTo({"a", " ", "."}, 2)

\* titles handed to _sanitize_filename: every short text, and long texts
\* whose length is around the cap
SfInputs ==
    TextsUpTo(SfAlphabet, MaxNameLen)
    \cup {h \o Rep("a", n) \o t :
            h \in SfEnds, t \in SfEnds,
            n \in (FilenameCap - 1 - MaxPad)..(FilenameCap - 1 + MaxPad)}

SfInit ==
    /\ sf_pc = "call"
    /\ sf_in \in SfInputs
    /\ sf_out = <<>>
    /\ SfOthersIdle

\* one call of _sanitize_filename
Sanitize ==
    /\ sf_pc = "call"
    /\ sf_out' = sanitize_filename(sf_in)
    /\ sf_pc' = "done"
    /\ UNCHANGED <<sf_in, sfOthers>>

SfNext == Sanitize

SpecSanitize == SfInit /\ [][SfNext]_vars

HasAny(s, set) == \E i \in 1..Len(s) : s[i] \in set

\* C7 (as claimed): a title holding a reserved character gives a name with
\* no reserved character, that is not empty and has at most 200 characters.
C7_ReservedTitleGivesUsableName ==
    (sf_pc = "done" /\ HasAny(sf_in, ReservedChars)) =>
        /\ ~HasAny(sf_out, ReservedChars)
        /\ sf_out # <<>>
        /\ Len(sf_out) <= FilenameCap

\* C8 (as claimed): the result holds no control character, no white space
\* other than single spaces, and neither starts nor ends with a dot or a
\* space, also when it was cut at the cap.
C8_ResultIsClean ==
    sf_pc = "done" =>
        /\ ~HasAny(sf_out, ControlChars)
        /\ \A i \in 1..Len(sf_out) :
              sf_out[i] \in WhiteSpace =>
                  /\ sf_out[i] = " "
                  /\ (i > 1 => sf_out[i - 1] \notin WhiteSpace)
        /\ sf_out # <<>> =>
              /\ sf_out[1] \notin {".", " "}
              /\ sf_out[Len(sf_out)] \notin {".", " "}

-----------------------------------------------------------------------------
(* Title extraction on one document *)

\* the most elements a document has
MaxElems == 2
\* the largest chapter_num the title is extracted for
MaxChapterNum == 1

Intro == <<"I", "n", "t", "r", "o">>
Other == <<"O", "t", "h", "e", "r">>

\* the text nodes of an element: none, white space only, one node, or two
\* nodes with white space around them (<h1> M <b>ain </b></h1>)
TitleStrings ==
    { <<>>,
      << <<" ">> >>,
      << Intro >>,
      << Other >>,
      << <<" ", "M", " ">>, <<"a", "i", "n", " ">> >> }

TitleElems == [tag : {"h1", "h2", "h3", "title", "p"}, strings : TitleStrings]

RECURSIVE SeqsUpTo(_, _)
SeqsUpTo(set, n) ==
    IF n = 0 THEN {<<>>}
    ELSE LET shorter == SeqsUpTo(set, n - 1)
         IN shorter \cup {Append(t, c) : t \in shorter, c \in set}

\* item names: 03-the-beginning.html, 12.html, 12-34.html,
\* Text/ch_1.xhtml, _.html
Name03 == <<"0", "3", "-", "t", "h", "e", "-", "b", "e", "g", "i", "n", "n", "i", "n", "g",
            ".", "h", "t", "m", "l">>
Name12 == <<"1", "2", ".", "h", "t", "m", "l">>
Name1234 == <<"1", "2", "-", "3", "4", ".", "h", "t", "m", "l">>
NameCh1 == <<"T", "e", "x", "t", "/", "c", "h", "_", "1", ".", "x", "h", "t", "m", "l">>
NameUnderscore == <<"_", ".", "h", "t", "m", "l">>

ItemNames == {Name03, Name12, Name1234, NameCh1, NameUnderscore}

TInit ==
    /\ t_pc = "call"
    /\ t_item \in [file_name : ItemNames, elems : SeqsUpTo(TitleElems, MaxElems)]
    /\ t_num \in 0..MaxChapterNum
    /\ t_out = <<>>
    /\ TOthersIdle

\* one call of _extract_chapter_title
ExtractTitle ==
    /\ t_pc = "call"
    /\ t_out' = extract_chapter_title(t_item.elems, t_item, t_num)
    /\ t_pc' = "done"
    /\ UNCHANGED <<t_item, t_num, tOthers>>

TNext == ExtractTitle

SpecTitle == TInit /\ [][TNext]_vars

\* the first element of a tag (0 when there is none) and its text
FirstOf(soup, tag) ==
    IF \E i \in 1..Len(soup) : soup[i].tag = tag
    THEN CHOOSE i \in 1..Len(soup) : soup[i].tag = tag /\ \A j \in 1..(i - 1) : soup[j].tag # tag
    ELSE 0

LevelText(soup, tag) ==
    IF FirstOf(soup, tag) = 0 THEN <<>> ELSE get_text_strip(soup[FirstOf(soup, tag)])

\* the titles that come from no element: the file-name rule and "Chapter N"
NonElementTitles(item, num) ==
    {ChapterN(num + 1)}
    \cup (IF FileNameTitle(item.file_name) = None THEN {}
          ELSE {TheValue(FileNameTitle(item.file_name))})

\* C9 (as claimed): when some h1, h2 or h3 has text, the title is the text
\* of the first such element of the document; otherwise, when a title
\* element has text, the title is that text; only otherwise do the
\* file-name rule and "Chapter N" apply.  (The title element is taken to be
\* the first one of the document.)
C9_FirstHeadingOfDocumentWins ==
    t_pc = "done" =>
        LET soup == t_item.elems
            hs == {i \in 1..Len(soup) :
                      soup[i].tag \in {"h1", "h2", "h3"} /\ get_text_strip(soup[i]) # <<>>}
            tt == LevelText(soup, "title")
        IN /\ hs # {} => t_out = get_text_strip(soup[CHOOSE i \in hs : \A j \in hs : i <= j])
           /\ (hs = {} /\ tt # <<>>) => t_out = tt
           /\ (hs = {} /\ FirstOf(soup, "title") = 0) =>
                  t_out \in NonElementTitles(t_item, t_num)

\* C9 (amended): the levels are tried in the order h1, h2, h3 and only the
\* first element of each level counts: the title is the text of the first
\* h1 when it has text, else of the first h2 when it has text, else of the
\* first h3 when it has text; else the text of the first title element when
\* it has text; only otherwise do the file-name rule and "Chapter N" apply.
C9_FirstElementOfEachLevelInLevelOrder ==
    t_pc = "done" =>
        LET soup == t_item.elems
            h1 == LevelText(soup, "h1")
            h2 == LevelText(soup, "h2")
            h3 == LevelText(soup, "h3")
            tt == LevelText(soup, "title")
        IN /\ h1 # <<>> => t_out = h1
           /\ (h1 = <<>> /\ h2 # <<>>) => t_out = h2
           /\ (h1 = <<>> /\ h2 = <<>> /\ h3 # <<>>) => t_out = h3
           /\ (h1 = <<>> /\ h2 = <<>> /\ h3 = <<>> /\ tt # <<>>) => t_out = tt
           /\ (h1 = <<>> /\ h2 = <<>> /\ h3 = <<>> /\ tt = <<>>) =>
                  t_out \in NonElementTitles(t_item, t_num)

\* an h2 with text stands before an h1 with another text: the title is the
\* text of the h1
C9_Witness ==
    /\ t_pc = "done"
    /\ \E i, j \in 1..Len(t_item.elems) :
          /\ i < j
          /\ t_item.elems[i].tag = "h2" /\ get_text_strip(t_item.elems[i]) = Intro
          /\ t_item.elems[j].tag = "h1" /\ get_text_strip(t_item.elems[j]) = Other
          /\ t_out = Other

NoHeadingNoTitle(soup) ==
    \A i \in 1..Len(soup) : soup[i].tag \notin {"h1", "h2", "h3", "title"}

TheBeginning == <<"T", "h", "e", " ", "B", "e", "g", "i", "n", "n", "i", "n", "g">>

\* C10 (as claimed): a document without h1, h2, h3 and title element named
\* 03-the-beginning.html gets the title "The Beginning".
C10_NumericPrefixDropped ==
    (t_pc = "done" /\ NoHeadingNoTitle(t_item.elems) /\ t_item.file_name = Name03)
        => t_out = TheBeginning

\* C10 (amended): that document gets the title "03 The Beginning": the
\* file-name rule removes a digit run only at the end of the stem, the
\* numeric prefix stays.
C10_NumericPrefixKept ==
    (t_pc = "done" /\ NoHeadingNoTitle(t_item.elems) /\ t_item.file_name = Name03)
        => t_out = <<"0", "3", " ">> \o TheBeginning

\* the title of such a document has been extracted
C10_Witness ==
    /\ t_pc = "done"
    /\ NoHeadingNoTitle(t_item.elems)
    /\ t_item.elems # <<>>
    /\ t_item.file_name = Name03
    /\ t_out # <<>>

-----------------------------------------------------------------------------
(* EPUBParser.get_chapters *)

\* the longest spine
MaxSpine == 3

SomeText == <<"t", "e", "x", "t">>

\* The items of the archive (book.get_items()), by id: a chapter with a
\* heading, a document without elements, one with a blank paragraph, one
\* with a script only, one with a title element only, one whose processing
\* raises, an image, a chapter without heading, a chapter with blank and
\* non-blank parts.
ArchiveItems == <<
    [id |-> 1, is_document |-> TRUE, fails |-> FALSE, file_name |-> NameCh1,
     elems |-> << [tag |-> "h1", strings |-> <<Intro>>],
                  [tag |-> "p", strings |-> <<SomeText>>] >>],
    [id |-> 2, is_document |-> TRUE, fails |-> FALSE, file_name |-> Name03,
     elems |-> <<>>],
    [id |-> 3, is_document |-> TRUE, fails |-> FALSE, file_name |-> Name12,
     elems |-> << [tag |-> "p", strings |-> << <<" ", NL>>, <<"\t">> >>] >>],
    [id |-> 4, is_document |-> TRUE, fails |-> FALSE, file_name |-> Name12,
     elems |-> << [tag |-> "script", strings |-> <<SomeText>>],
                  [tag |-> "h2", strings |-> <<>>] >>],
    [id |-> 5, is_document |-> TRUE, fails |-> FALSE, file_name |-> Name1234,
     elems |-> << [tag |-> "title", strings |-> <<Other>>] >>],
    [id |-> 6, is_document |-> TRUE, fails |-> TRUE, file_name |-> NameCh1,
     elems |-> << [tag |-> "p", strings |-> <<SomeText>>] >>],
    [id |-> 7, is_document |-> FALSE, fails |-> FALSE, file_name |-> NameUnderscore,
     elems |-> <<>>],
    [id |-> 8, is_document |-> TRUE, fails |-> FALSE, file_name |-> Name12,
     elems |-> << [tag |-> "p", strings |-> <<SomeText>>] >>],
    [id |-> 9, is_document |-> TRUE, fails |-> FALSE, file_name |-> Name03,
     elems |-> << [tag |-> "style", strings |-> <<SomeText>>],
                  [tag |-> "p", strings |-> << <<" ">> >>],
                  [tag |-> "div", strings |-> << <<" ">>, SomeText >>] >>]
>>

\* line 73-76: the document items by id
items_map == [id \in {i \in 1..Len(ArchiveItems) : ArchiveItems[i].is_document}
                |-> ArchiveItems[id]]

\* the ids a spine may name: those of the items, and one of no item
SpineIds == 1..(Len(ArchiveItems) + 1)

PInit ==
    /\ p_pc = "loop"
    /\ spine \in SeqsUpTo(SpineIds, MaxSpine)
    /\ p_i = 0
    /\ chapter_num = 0
    /\ chapters = <<>>
    /\ POthersIdle

\* the loop of lines 80-86 around a _process_chapter without its except
\* clause: the exception of a failing document leaves get_chapters
ProcessSpineItem_failure_propagates ==
    /\ p_pc = "loop"
    /\ p_i < Len(spine)
    /\ LET spine_id == spine[p_i + 1]
       IN IF spine_id \in DOMAIN items_map /\ items_map[spine_id].fails
          THEN /\ p_pc' = "raised"
               /\ UNCHANGED <<p_i, chapters, chapter_num>>
          ELSE /\ p_i' = p_i + 1
               /\ p_pc' = p_pc
               /\ IF spine_id \in DOMAIN items_map
                     /\ is_kept(process_chapter(items_map[spine_id], chapter_num))
                  THEN /\ chapters' = Append(chapters,
                                             TheValue(process_chapter(items_map[spine_id], chapter_num)))
                       /\ chapter_num' = chapter_num + 1
                  ELSE UNCHANGED <<chapters, chapter_num>>
    /\ UNCHANGED <<spine, pOthers>>

\* lines 80-86: one round of the loop over the spine
ProcessSpineItem ==
    /\ p_pc = "loop"
    /\ p_i < Len(spine)
    /\ p_i' = p_i + 1
    /\ LET spine_id == spine[p_i + 1]
       IN IF spine_id \in DOMAIN items_map
          THEN LET chapter_data == process_chapter(items_map[spine_id], chapter_num)
               IN IF is_kept(chapter_data)
                  THEN /\ chapters' = Append(chapters, TheValue(chapter_data))
                       /\ chapter_num' = chapter_num + 1
                  ELSE UNCHANGED <<chapters, chapter_num>>
          ELSE UNCHANGED <<chapters, chapter_num>>
    /\ UNCHANGED <<p_pc, spine, pOthers>>

\* line 88
GetChaptersReturn ==
    /\ p_pc = "loop"
    /\ p_i = Len(spine)
    /\ p_pc' = "done"
    /\ UNCHANGED <<spine, p_i, chapter_num, chapters, pOthers>>

PNext == ProcessSpineItem \/ GetChaptersReturn

SpecParse == PInit /\ [][PNext]_vars

NonBlank(text) == \E i \in 1..Len(text) : text[i] \notin WhiteSpace

\* the spine entry names a document whose plain text, scripts and styles
\* apart, has a character that is no white space
HasPlainText(spine_id) ==
    /\ spine_id \in 1..Len(ArchiveItems)
    /\ ArchiveItems[spine_id].is_document
    /\ ~ArchiveItems[spine_id].fails
    /\ \E i \in 1..Len(ArchiveItems[spine_id].elems) :
          LET e == ArchiveItems[spine_id].elems[i]
          IN /\ e.tag \notin {"script", "style"}
             /\ \E j \in 1..Len(e.strings) : NonBlank(e.strings[j])

\* C1: get_chapters returns exactly the spine documents with non-blank
\* plain text, in spine order, numbered 1, 2, ..., K; and all along the
\* loop the chapters collected so far are numbered 1, 2, ... without gap.
C1_ChaptersAreTheNonEmptyDocumentsNumberedFromOne ==
    /\ \A k \in 1..Len(chapters) : chapters[k].number = k
    /\ p_pc = "done" =>
          LET kept == SelectSeq(spine, HasPlainText)
          IN /\ Len(chapters) = Len(kept)
             /\ \A k \in 1..Len(kept) : chapters[k].item_id = kept[k]

\* a spine of three documents whose second has no text has been read: the
\* first and the third are chapters 1 and 2
C1_Witness ==
    /\ p_pc = "done"
    /\ Len(spine) = 3
    /\ HasPlainText(spine[1]) /\ spine[2] \in DOMAIN items_map
    /\ ~HasPlainText(spine[2]) /\ HasPlainText(spine[3])
    /\ Len(chapters) = 2
    /\ chapters[2].item_id = spine[3] /\ chapters[2].number = 2

-----------------------------------------------------------------------------
(* MarkdownConverter._basic_html_to_markdown *)

\* A node of the parsed tree is [name, text, href, children]; a text node
\* has the name TextNode (element.name is None) and its text, an element
\* has its tag name, its href attribute ("" when absent) and its children.
TextNode == "#text"
Txt(t) == [name |-> TextNode, text |-> t, href |-> <<>>, children |-> <<>>]
El(tag, kids) == [name |-> tag, text |-> <<>>, href |-> <<>>, children |-> kids]
Link(target, kids) == [name |-> "a", text |-> <<>>, href |-> target, children |-> kids]

\* element.get_text(): the text nodes below it, joined
RECURSIVE get_text(_), children_text(_)
get_text(element) ==
    IF element.name = TextNode THEN element.text ELSE children_text(element.children)
children_text(kids) ==
    IF kids = <<>> THEN <<>> ELSE get_text(Head(kids)) \o children_text(Tail(kids))

\* str.split(sep) for a one-character sep, and sep.join(parts)
RECURSIVE Split(_, _)
Split(s, sep) ==
    IF \E i \in 1..Len(s) : s[i] = sep
    THEN LET i == CHOOSE k \in 1..Len(s) : s[k] = sep /\ \A j \in 1..(k - 1) : s[j] # sep
         IN <<SubSeq(s, 1, i - 1)>> \o Split(SubSeq(s, i + 1, Len(s)), sep)
    ELSE <<s>>

RECURSIVE Join(_, _)
Join(parts, sep) ==
    IF parts = <<>> THEN <<>>
    ELSE IF Len(parts) = 1 THEN parts[1]
    ELSE parts[1] \o sep \o Join(Tail(parts), sep)

HeadingNames == <<"h1", "h2", "h3", "h4", "h5", "h6">>
IsHeadingName(name) == \E l \in 1..6 : HeadingNames[l] = name
HeadingLevel(name) == CHOOSE l \in 1..6 : HeadingNames[l] = name

\* lines 121-131: the lines of the direct li children of a ul (ordered
\* FALSE) or ol (ordered TRUE), idx being the number of the next item
RECURSIVE ListItems(_, _, _)
ListItems(kids, ordered, idx) ==
    IF kids = <<>> THEN <<>>
    ELSE IF Head(kids).name = "li"
         THEN << (IF ordered THEN Dec(idx) \o <<".", " ">> ELSE <<"-", " ">>)
                 \o get_text(Head(kids)) >>
              \o ListItems(Tail(kids), ordered, idx + 1)
         ELSE ListItems(Tail(kids), ordered, idx)

\* lines 134-135: the non-blank lines, each behind "> "
RECURSIVE QuotedLines(_)
QuotedLines(lines) ==
    IF lines = <<>> THEN <<>>
    ELSE (IF Strip(Head(lines)) # <<>> THEN << <<">", " ">> \o Head(lines) >> ELSE <<>>)
         \o QuotedLines(Tail(lines))

\* lines 86-164
RECURSIVE convert_element(_), convert_children(_)
convert_element(element) ==
    LET text == get_text(element)
        name == element.name
    IN IF name = TextNode THEN element.text
       ELSE IF IsHeadingName(name)
            THEN <<NL>> \o Rep("#", HeadingLevel(name)) \o <<" ">> \o text \o <<NL>>
       ELSE IF name = "p" THEN <<NL>> \o text \o <<NL>>
       ELSE IF name \in {"strong", "b"} THEN <<"*", "*">> \o text \o <<"*", "*">>
       ELSE IF name \in {"em", "i"} THEN <<"*">> \o text \o <<"*">>
       ELSE IF name = "code" THEN <<BackTick>> \o text \o <<BackTick>>
       ELSE IF name = "pre"
            THEN <<NL, BackTick, BackTick, BackTick, NL>> \o text
                 \o <<NL, BackTick, BackTick, BackTick, NL>>
       ELSE IF name = "a"
            THEN IF element.href # <<>>
                 THEN <<"[">> \o text \o <<"]", "(">> \o element.href \o <<")">>
                 ELSE text
       ELSE IF name = "ul"
            THEN <<NL>> \o Join(ListItems(element.children, FALSE, 1), <<NL>>) \o <<NL>>
       ELSE IF name = "ol"
            THEN <<NL>> \o Join(ListItems(element.children, TRUE, 1), <<NL>>) \o <<NL>>
       ELSE IF name = "blockquote"
            THEN <<NL>> \o Join(QuotedLines(Split(text, NL)), <<NL>>) \o <<NL>>
       ELSE IF name = "br" THEN <<NL>>
       ELSE IF name = "hr" THEN <<NL, "-", "-", "-", NL>>
       ELSE IF name \in {"div", "section", "article", "span", "body"}
            THEN convert_children(element.children)
       ELSE text
convert_children(kids) ==
    IF kids = <<>> THEN <<>>
    ELSE convert_element(Head(kids)) \o convert_children(Tail(kids))

\* soup.find('body'): the first body element in document order, or None
RECURSIVE find_body(_)
find_body(nodes) ==
    IF nodes = <<>> THEN None
    ELSE IF Head(nodes).name = "body" THEN Some(Head(nodes))
    ELSE IF find_body(Head(nodes).children) # None THEN find_body(Head(nodes).children)
    ELSE find_body(Tail(nodes))

\* re.sub(r'\n{3,}', '\n\n', s): a newline that follows two newlines goes
RECURSIVE CollapseNewlines(_, _)
CollapseNewlines(s, i) ==
    IF i > Len(s) THEN <<>>
    ELSE IF i > 2 /\ s[i] = NL /\ s[i - 1] = NL /\ s[i - 2] = NL
         THEN CollapseNewlines(s, i + 1)
    ELSE <<s[i]>> \o CollapseNewlines(s, i + 1)

\* re.sub(r' +', ' ', s): a space that follows a space goes
RECURSIVE CollapseSpaces(_, _)
CollapseSpaces(s, i) ==
    IF i > Len(s) THEN <<>>
    ELSE IF i > 1 /\ s[i] = " " /\ s[i - 1] = " " THEN CollapseSpaces(s, i + 1)
    ELSE <<s[i]>> \o CollapseSpaces(s, i + 1)

\* lines 84-177; soup is the sequence of the top-level nodes of the parsed
\* document, whose own name is '[document]'
basic_html_to_markdown(soup) ==
    LET body == find_body(soup)
        markdown == IF body # None THEN convert_element(TheValue(body))
                    ELSE convert_element(El("[document]", soup))
    IN Strip(CollapseSpaces(CollapseNewlines(markdown, 1), 1))

-----------------------------------------------------------------------------
(* MarkdownConverter._html_to_markdown *)

Hello == <<"H", "e", "l", "l", "o", " ">>
World == <<"w", "o", "r", "l", "d">>

\* parsed documents handed to the converter
ParagraphDoc == << El("body", << El("p", << Txt(Hello), El("strong", <<Txt(World)>>) >>) >>) >>
SectionDoc ==
    << El("body", << El("div", << El("h2", <<Txt(Intro)>>),
                                  El("ul", << El("li", <<Txt(World)>>),
                                              El("li", <<Txt(Other)>>) >>),
                                  El("hr", <<>>),
                                  El("p", <<Txt(SomeText)>>) >>) >>) >>

HtmlTrees == {
    ParagraphDoc,
    << El("p", << Txt(Hello), El("strong", <<Txt(World)>>) >>) >>,
    SectionDoc,
    << El("body", <<>>) >>,
    << El("body", << El("p", <<Txt(<<" ", NL>>)>>) >>) >>,
    << El("html", << El("head", << El("title", <<Txt(Other)>>) >>),
                     El("body", << El("blockquote", <<Txt(Hello \o <<NL, NL>> \o World)>>),
                                   El("ol", << El("li", <<Txt(Intro)>>) >>),
                                   Link(World, <<Txt(Hello)>>),
                                   El("br", <<>>),
                                   El("em", <<Txt(World)>>),
                                   El("pre", << El("code", <<Txt(SomeText)>>) >>) >>) >>) >>
}

\* what the primary converter (MarkItDown, a library) gives for a file: it
\* raises, or returns a result whose text_content is None, blank or a text
PrimaryTexts == { <<"#", " ", "T", NL, NL, "x", NL>>, <<"y">> }
PrimaryOutcomes ==
    {[raises |-> TRUE, text_content |-> None]}
    \cup {[raises |-> FALSE, text_content |-> t] :
             t \in {None, Some(<<>>), Some(<<" ", NL>>)} \cup {Some(x) : x \in PrimaryTexts}}

\* the one scratch file name the call gets from NamedTemporaryFile
ScratchName == "tmp.html"

\* An argument of _html_to_markdown: the parsed form of html_content;
\* deep: the elements nest deeper than the interpreter's recursion limit,
\* so that the recursion of convert_element raises RecursionError;
\* encodable: html_content can be encoded as UTF-8 (it holds no lone
\* surrogate such as the one BeautifulSoup makes of &#xD800;).
CInit ==
    /\ c_pc = "create"
    /\ c_html \in [soup : HtmlTrees, deep : BOOLEAN, encodable : BOOLEAN]
    /\ tmp_files = {}
    /\ temp_path = None
    /\ c_pending = None
    /\ c_ret = None
    /\ c_log = <<>>
    /\ COthersIdle

\* line 59: NamedTemporaryFile(delete=False) creates the file, or raises
CreateScratch ==
    /\ c_pc = "create"
    /\ \E created \in BOOLEAN :
          IF created
          THEN /\ tmp_files' = tmp_files \cup {ScratchName}
               /\ c_pc' = "write"
          ELSE /\ c_pc' = "except"
               /\ UNCHANGED tmp_files
    /\ UNCHANGED <<c_html, temp_path, c_pending, c_ret, c_log, cOthers>>

\* lines 60-61 and the end of the with block: the HTML is written and the
\* file closed; when the write raises (the text cannot be encoded, the disk
\* is full) the with block closes the file and temp_path is never assigned
WriteScratch ==
    /\ c_pc = "write"
    /\ \E written \in BOOLEAN :
          /\ ~c_html.encodable => ~written
          /\ IF written
             THEN /\ temp_path' = Some(ScratchName)
                  /\ c_pc' = "convert"
             ELSE /\ c_pc' = "except"
                  /\ UNCHANGED temp_path
    /\ UNCHANGED <<c_html, tmp_files, c_pending, c_ret, c_log, cOthers>>

\* the call of _basic_html_to_markdown: what it returns, or that it raises
Fallback(html) ==
    IF html.deep THEN [raises |-> TRUE, value |-> None]
    ELSE [raises |-> FALSE, value |-> Some(basic_html_to_markdown(html.soup))]

\* lines 64-72: the primary conversion; a blank result calls the fallback
\* inside the try block; the return or the exception waits for the finally
PrimaryConvert ==
    /\ c_pc = "convert"
    /\ \E result \in PrimaryOutcomes :
          IF result.raises
          THEN /\ c_pending' = [raises |-> TRUE, value |-> None]
               /\ UNCHANGED c_log
          ELSE LET markdown_text == IF result.text_content = None THEN <<>>
                                    ELSE TheValue(result.text_content)
               IN IF Strip(markdown_text) = <<>>
                  THEN /\ c_log' = Append(c_log, "empty")
                       /\ c_pending' = Fallback(c_html)
                  ELSE /\ c_pending' = [raises |-> FALSE, value |-> Some(markdown_text)]
                       /\ UNCHANGED c_log
    /\ c_pc' = "finally"
    /\ UNCHANGED <<c_html, tmp_files, temp_path, c_ret, cOthers>>

\* lines 73-76: os.unlink(temp_path), then the return or the exception
\* goes on
Finally ==
    /\ c_pc = "finally"
    /\ tmp_files' = tmp_files \ {TheValue(temp_path)}
    /\ IF c_pending.raises
       THEN /\ c_pc' = "except"
            /\ UNCHANGED c_ret
       ELSE /\ c_pc' = "returned"
            /\ c_ret' = c_pending.value
    /\ UNCHANGED <<c_html, temp_path, c_pending, c_log, cOthers>>

\* lines 77-80: any exception prints and calls the fallback, whose own
\* exception leaves _html_to_markdown
ExceptFallback ==
    /\ c_pc = "except"
    /\ c_log' = Append(c_log, "error")
    /\ LET r == Fallback(c_html)
       IN IF r.raises
          THEN /\ c_pc' = "raised"
               /\ UNCHANGED c_ret
          ELSE /\ c_pc' = "returned"
               /\ c_ret' = r.value
    /\ UNCHANGED <<c_html, tmp_files, temp_path, c_pending, cOthers>>

CNext == CreateScratch \/ WriteScratch \/ PrimaryConvert \/ Finally \/ ExceptFallback

SpecConvert == CInit /\ [][CNext]_vars

\* C4 (as claimed): _html_to_markdown never raises.
C4_NeverRaises == c_pc # "raised"

\* C6 (as claimed): once the call is over, by a return or by an exception,
\* no scratch file it created exists.
C6_ScratchFileDeletedOnEveryExit ==
    c_pc \in {"returned", "raised"} => tmp_files = {}

-----------------------------------------------------------------------------
(* cli.batch *)

\* the most archives in the input directory
MaxArchives == 3

ArchiveNames == {"a.epub", "b.epub", "c.epub", "d.epub"}

\* An archive of the input directory: its file name, and whether
\* write_book raises for it (a corrupt container, a failed write, a
\* conversion that raises) and with what message.
Archives == [name : ArchiveNames, error : {None, Some("bad archive")}]

\* what writer.write_book(epub_path, ...) does for the batch: it returns,
\* or raises an Exception
write_book_raises(epub_path) == epub_path.error # None

\* convert_one where the except clause lets the exception go on
convert_one_reraise(epub_path, st) ==
    IF write_book_raises(epub_path)
    THEN [st EXCEPT !.aborted = TRUE]
    ELSE [st EXCEPT !.successful = @ + 1]

\* lines 160-172: the body of the loop, on the locals st
convert_one(epub_path, st) ==
    IF write_book_raises(epub_path)
    THEN [st EXCEPT !.failed = Append(@, <<epub_path.name, TheValue(epub_path.error)>>)]
    ELSE [st EXCEPT !.successful = @ + 1]

\* glob gives every file once
BInit ==
    /\ b_pc = "start"
    /\ epub_files \in {fs \in SeqsUpTo(Archives, MaxArchives) :
                          \A i, j \in 1..Len(fs) : i # j => fs[i].name # fs[j].name}
    /\ b_i = 0
    /\ successful = 0
    /\ failed = <<>>
    /\ b_shown = <<>>
    /\ exit_code = None
    /\ BOthersIdle

\* lines 137-154: without archives the command ends with typer.Exit(0)
BatchStart ==
    /\ b_pc = "start"
    /\ IF epub_files = <<>>
       THEN b_pc' = "exited" /\ exit_code' = Some(0)
       ELSE b_pc' = "loop" /\ UNCHANGED exit_code
    /\ UNCHANGED <<epub_files, b_i, successful, failed, b_shown, bOthers>>

\* lines 159-172: one round of the loop
BatchConvertOne ==
    /\ b_pc = "loop"
    /\ b_i < Len(epub_files)
    /\ LET epub_path == epub_files[b_i + 1]
           st == convert_one(epub_path,
                             [successful |-> successful, failed |-> failed, aborted |-> FALSE])
       IN /\ b_shown' = Append(b_shown, epub_path.name)
          /\ successful' = st.successful
          /\ failed' = st.failed
          /\ IF st.aborted
             THEN b_pc' = "exited" /\ exit_code' = Some(1)
             ELSE UNCHANGED <<b_pc, exit_code>>
    /\ b_i' = b_i + 1
    /\ UNCHANGED <<epub_files, bOthers>>

\* lines 174-182: the summary; the command returns and the status is 0
BatchFinish ==
    /\ b_pc = "loop"
    /\ b_i = Len(epub_files)
    /\ b_pc' = "exited"
    /\ exit_code' = Some(0)
    /\ UNCHANGED <<epub_files, b_i, successful, failed, b_shown, bOthers>>

BNext == BatchStart \/ BatchConvertOne \/ BatchFinish

SpecBatch == BInit /\ [][BNext]_vars

IsFailing(a) == a.error # None
IsConverting(a) == a.error = None

\* C5: no failure ends the batch: at the end every archive was attempted
\* once, in order; the successes are the archives that convert, the failure
\* entries are those of the archives that fail, in order, with their names;
\* successes + failures = archives; the exit status is 0.  All along the
\* loop successes + failures = archives attempted.
C5_BatchSurvivesFailures ==
    /\ b_pc \in {"start", "loop"} => exit_code = None
    /\ successful + Len(failed) = b_i
    /\ b_pc = "exited" =>
          /\ exit_code = Some(0)
          /\ b_i = Len(epub_files)
          /\ b_shown = [i \in 1..Len(epub_files) |-> epub_files[i].name]
          /\ successful = Len(SelectSeq(epub_files, IsConverting))
          /\ LET bad == SelectSeq(epub_files, IsFailing)
             IN /\ Len(failed) = Len(bad)
                /\ \A k \in 1..Len(bad) : failed[k][1] = bad[k].name

\* three archives, the second corrupt: 2 successes, one failure entry for
\* the second, exit status 0
C5_Witness ==
    /\ b_pc = "exited"
    /\ Len(epub_files) = 3
    /\ IsConverting(epub_files[1]) /\ IsFailing(epub_files[2]) /\ IsConverting(epub_files[3])
    /\ successful = 2
    /\ Len(failed) = 1 /\ failed[1][1] = epub_files[2].name
    /\ exit_code = Some(0)

-----------------------------------------------------------------------------
(* MarkdownConverter._post_process_markdown *)

\* the index of the last character of the longest run of characters of set
\* that starts at i; i - 1 when s[i] is not in set
RECURSIVE RunEnd(_, _, _)
RunEnd(s, i, set) ==
    IF i <= Len(s) /\ s[i] \in set THEN RunEnd(s, i + 1, set) ELSE i - 1

\* the index of the first c at or after i, 0 when there is none
RECURSIVE IndexFrom(_, _, _)
IndexFrom(s, c, i) ==
    IF i > Len(s) THEN 0 ELSE IF s[i] = c THEN i ELSE IndexFrom(s, c, i + 1)

LowerText(s) == [i \in 1..Len(s) |-> ToLower(s[i])]

\* s holds the text word at i, letter case apart
MatchesWordAt(s, i, word) ==
    /\ i + Len(word) - 1 <= Len(s)
    /\ \A k \in 1..Len(word) : ToLower(s[i + k - 1]) = ToLower(word[k])

Letters == {LowerLetters[i] : i \in 1..26} \cup {UpperLetters[i] : i \in 1..26}
RomanOrDigit == {"I", "V", "X", "i", "v", "x"} \cup Digits

\* Each ...End(s, i) is the index of the last character of the match of a
\* pattern at i, 0 when the pattern does not match at i.

\* r'Chapter\s+([IVX\d]+|[A-Z][a-z]+)' with re.IGNORECASE (line 186)
ChapterRefEnd(s, i) ==
    IF ~MatchesWordAt(s, i, ChapterWord) THEN 0
    ELSE LET w == RunEnd(s, i + 7, WhiteSpace)
             r == RunEnd(s, w + 1, RomanOrDigit)
             l == RunEnd(s, w + 1, Letters)
         IN IF w < i + 7 THEN 0
            ELSE IF r > w THEN r
            ELSE IF l > w + 1 THEN l
            ELSE 0

\* r'\[(\d+)\]' (line 197)
FootnoteEnd(s, i) ==
    IF s[i] # "[" THEN 0
    ELSE LET d == RunEnd(s, i + 1, Digits)
         IN IF d > i /\ d + 1 <= Len(s) /\ s[d + 1] = "]" THEN d + 1 ELSE 0

\* r'<[^>]+>' (line 200)
TagEnd(s, i) ==
    IF s[i] # "<" THEN 0
    ELSE LET g == IndexFrom(s, ">", i + 1)
         IN IF g > i + 1 THEN g ELSE 0

\* r'(#{1,6}\s+[^\n]+)\n([^\n])' (line 203): the run of # has at most 6
\* characters; \s+ takes k characters of the white space behind it, the most
\* it can; [^\n]+ then runs to the end of its line, which a newline and one
\* more character that is no newline must follow
RECURSIVE HeaderEndWith(_, _, _)
HeaderEndWith(s, h, k) ==
    IF k < 1 THEN 0
    ELSE LET start == h + k + 1
             e == IndexFrom(s, NL, start)
         IN IF /\ start <= Len(s) /\ s[start] # NL
               /\ e # 0 /\ e + 1 <= Len(s) /\ s[e + 1] # NL
            THEN e + 1
            ELSE HeaderEndWith(s, h, k - 1)

HeaderEnd(s, i) ==
    IF s[i] # "#" THEN 0
    ELSE LET h == RunEnd(s, i, {"#"})
             w == RunEnd(s, h + 1, WhiteSpace)
         IN IF h - i + 1 > 6 THEN 0 ELSE HeaderEndWith(s, h, w - h)

\* r'\n(-|\d+\.)\s+' (line 206)
ListItemEnd(s, i) ==
    IF s[i] # NL \/ i + 1 > Len(s) THEN 0
    ELSE LET d == RunEnd(s, i + 1, Digits)
             m == IF s[i + 1] = "-" THEN i + 1
                  ELSE IF d > i /\ d + 1 <= Len(s) /\ s[d + 1] = "." THEN d + 1
                  ELSE 0
             w == RunEnd(s, m + 1, WhiteSpace)
         IN IF m = 0 \/ w <= m THEN 0 ELSE w

\* re.sub for each pattern: from the left, every match is replaced and the
\* search goes on behind it.  The replacement templates of lines 197, 203
\* and 206 are raw strings with a doubled backslash (r'[^\\1]'), which
\* re.sub writes as a backslash followed by the digit, not as the group.
BackSlash == "\\"

RECURSIVE SubChapterRefs(_, _)
SubChapterRefs(s, i) ==
    IF i > Len(s) THEN <<>>
    ELSE LET e == ChapterRefEnd(s, i)
         IN IF e # 0
            THEN <<"[", "[">> \o SubSeq(s, i, e) \o <<"]", "]">> \o SubChapterRefs(s, e + 1)
            ELSE <<s[i]>> \o SubChapterRefs(s, i + 1)

RECURSIVE SubFootnotes(_, _)
SubFootnotes(s, i) ==
    IF i > Len(s) THEN <<>>
    ELSE LET e == FootnoteEnd(s, i)
         IN IF e # 0
            THEN <<"[", "^", BackSlash, "1", "]">> \o SubFootnotes(s, e + 1)
            ELSE <<s[i]>> \o SubFootnotes(s, i + 1)

RECURSIVE SubTags(_, _)
SubTags(s, i) ==
    IF i > Len(s) THEN <<>>
    ELSE LET e == TagEnd(s, i)
         IN IF e # 0 THEN SubTags(s, e + 1) ELSE <<s[i]>> \o SubTags(s, i + 1)

RECURSIVE SubHeaders(_, _)
SubHeaders(s, i) ==
    IF i > Len(s) THEN <<>>
    ELSE LET e == HeaderEnd(s, i)
         IN IF e # 0
            THEN <<BackSlash, "1", NL, NL, BackSlash, "2">> \o SubHeaders(s, e + 1)
            ELSE <<s[i]>> \o SubHeaders(s, i + 1)

RECURSIVE SubListItems(_, _)
SubListItems(s, i) ==
    IF i > Len(s) THEN <<>>
    ELSE LET e == ListItemEnd(s, i)
         IN IF e # 0
            THEN <<NL, NL, BackSlash, "1", " ">> \o SubListItems(s, e + 1)
            ELSE <<s[i]>> \o SubListItems(s, i + 1)

\* lines 179-208
post_process_markdown(content, book_title) ==
    LET a == CollapseNewlines(content, 1)
        b == SubChapterRefs(a, 1)
        c == SubFootnotes(b, 1)
        d == SubTags(c, 1)
        e == SubHeaders(d, 1)
        f == SubListItems(e, 1)
    IN Strip(f)

-----------------------------------------------------------------------------
(* The document assembler: MarkdownConverter.convert_chapter and its parts *)

\* dict.get(key, default) on a record
Get(dict, key, default) == IF key \in DOMAIN dict THEN dict[key] ELSE default

\* f"{n:02d}"
Fmt02(n) == IF n < 10 THEN <<"0">> \o Dec(n) ELSE Dec(n)

\* The pictographs of the f-strings, each with the text that follows or
\* precedes it up to the variable part.  obsidian_writer.py holds other
\* bytes for them than markdown_converter.py, so they are other elements.
PrevOpen == "<left arrow> [["
IndexOpen == "<books> [["
NextClose == "]] <right arrow>"
WriterPrevOpen == "<left arrow, writer> [["
WriterIndexOpen == "<books, writer> [["
WriterNextClose == "]] <right arrow, writer>"
LinkOpen == "[["
NavSeparator == " | "

IsWordChar(c) == IsLetter(c) \/ c \in Digits \/ c = "_"

RECURSIVE KeepTagChars(_, _)
KeepTagChars(s, i) ==
    IF i > Len(s) THEN <<>>
    ELSE IF IsWordChar(s[i]) \/ s[i] \in WhiteSpace \/ s[i] = "-"
         THEN <<s[i]>> \o KeepTagChars(s, i + 1)
    ELSE KeepTagChars(s, i + 1)

\* lines 246-251
sanitize_tag(text) == LowerText(SubWsRuns(KeepTagChars(text, 1), <<"-">>, 1))

Separator == <<"-", "-", "-">>

\* lines 210-224
create_frontmatter(chapter_data, book_title) ==
    Separator \o <<NL>>
    \o <<"title: \"">> \o Get(chapter_data, "title", <<>>) \o <<"\"", NL>>
    \o <<"book: \"">> \o book_title \o <<"\"", NL>>
    \o <<"chapter: ">> \o Dec(Get(chapter_data, "number", 0)) \o <<NL>>
    \o <<"type: chapter", NL>>
    \o <<"tags:", NL>>
    \o <<"  - book/">> \o sanitize_tag(book_title) \o <<NL>>
    \o <<"  - chapter", NL>>
    \o Separator

PlaceholderPrevious == <<"P", "r", "e", "v", "i", "o", "u", "s">>
PlaceholderNext == <<"N", "e", "x", "t">>
PreviousChapterLabel == "|Previous Chapter]]"
NextChapterLabel == "|Next Chapter"
IndexLabel == "|Index]]"
IndexSuffix == <<" ", "-", " ", "I", "n", "d", "e", "x">>
InfoSuffix == <<" ", "-", " ", "I", "n", "f", "o">>

\* lines 242-244
format_chapter_filename(num, placeholder_title) ==
    Fmt02(num) \o <<" ", "-", " ">> \o placeholder_title

\* lines 226-240
create_navigation(num, book_title) ==
    LET prev == IF num > 1
                THEN << <<PrevOpen>> \o format_chapter_filename(num - 1, PlaceholderPrevious)
                        \o <<PreviousChapterLabel>> >>
                ELSE <<>>
        index == << <<IndexOpen>> \o book_title \o IndexSuffix \o <<IndexLabel>> >>
        next == << <<LinkOpen>> \o format_chapter_filename(num + 1, PlaceholderNext)
                   \o <<NextChapterLabel, NextClose>> >>
    IN Join(prev \o index \o next, <<NavSeparator>>)

\* lines 253-266
title_in_content(content, title) ==
    LET all == Split(content, NL)
        lines == SubSeq(all, 1, IF Len(all) < 5 THEN Len(all) ELSE 5)
        title_lower == Strip(LowerText(title))
    IN \E k \in 1..Len(lines) :
          /\ lines[k] # <<>> /\ lines[k][1] = "#"
          /\ LET h == RunEnd(lines[k], 1, {"#"})
                 w == RunEnd(lines[k], h + 1, WhiteSpace)
             IN Strip(LowerText(SubSeq(lines[k], w + 1, Len(lines[k])))) = title_lower

\* lines 27-52; markdown is what _html_to_markdown returned for the
\* chapter's content_html
convert_chapter(chapter_data, book_title, markdown) ==
    LET chapter_title == Get(chapter_data, "title", <<>>)
        num == Get(chapter_data, "number", 0)
        markdown_content == post_process_markdown(markdown, book_title)
        frontmatter == create_frontmatter(chapter_data, book_title)
        navigation == create_navigation(num, book_title)
        heading == IF chapter_title # <<>> /\ ~title_in_content(markdown_content, chapter_title)
                   THEN <<"#", " ">> \o chapter_title \o <<NL, NL>>
                   ELSE <<>>
    IN frontmatter \o <<NL, NL>> \o heading
       \o markdown_content \o <<NL, NL>> \o Separator \o <<NL, NL>> \o navigation

\* re.sub(r'[^\w\s]', '', s)
RECURSIVE KeepWordAndSpace(_, _)
KeepWordAndSpace(s, i) ==
    IF i > Len(s) THEN <<>>
    ELSE IF IsWordChar(s[i]) \/ s[i] \in WhiteSpace
         THEN <<s[i]>> \o KeepWordAndSpace(s, i + 1)
    ELSE KeepWordAndSpace(s, i + 1)

\* lines 320-324
titles_match(title1, title2) ==
    Strip(KeepWordAndSpace(LowerText(title1), 1)) = Strip(KeepWordAndSpace(LowerText(title2), 1))

\* lines 288-306: the lines of the index for the entries of the TOC
RECURSIVE TocLines(_, _)
TocLines(toc, chaps) ==
    IF toc = <<>> THEN <<>>
    ELSE LET toc_item == Head(toc)
             indent == Rep(" ", 2 * Get(toc_item, "level", 0))
             toc_title == Get(toc_item, "title", <<>>)
             matches == {k \in 1..Len(chaps) :
                            titles_match(toc_title, Get(chaps[k], "title", <<>>))}
         IN (IF matches # {}
             THEN LET chapter_match == chaps[CHOOSE k \in matches : \A j \in matches : k <= j]
                      filename == Fmt02(Get(chapter_match, "number", 0)) \o <<" ", "-", " ">>
                                  \o Get(chapter_match, "title", <<>>)
                  IN indent \o <<"-", " ", LinkOpen>> \o filename \o <<"|">> \o toc_title
                     \o <<"]]", NL>>
             ELSE indent \o <<"-", " ">> \o toc_title \o <<NL>>)
            \o TocLines(Tail(toc), chaps)

\* lines 309-313: the lines of the index for the chapters
RECURSIVE ChapterListLines(_)
ChapterListLines(chaps) ==
    IF chaps = <<>> THEN <<>>
    ELSE LET chapter_title == Get(Head(chaps), "title", <<>>)
             filename == Fmt02(Get(Head(chaps), "number", 0)) \o <<" ", "-", " ">>
                         \o chapter_title
         IN <<"-", " ", LinkOpen>> \o filename \o <<"|">> \o chapter_title \o <<"]]", NL>>
            \o ChapterListLines(Tail(chaps))

UnknownBook == <<"U", "n", "k", "n", "o", "w", "n", " ", "B", "o", "o", "k">>
UnknownAuthor == <<"U", "n", "k", "n", "o", "w", "n", " ", "A", "u", "t", "h", "o", "r">>

\* lines 268-318; line 316 is no f-string: it writes the braces and the
\* word title as they stand
create_index_page(book_metadata, chaps, toc) ==
    LET title == Get(book_metadata, "title", UnknownBook)
        authors == Get(book_metadata, "authors", <<UnknownAuthor>>)
    IN Separator \o <<NL>>
       \o <<"title: \"">> \o title \o <<" - Index\"", NL>>
       \o <<"type: index", NL>>
       \o <<"tags:", NL>>
       \o <<"  - book/">> \o sanitize_tag(title) \o <<NL>>
       \o <<"  - index", NL>>
       \o Separator \o <<NL, NL>>
       \o <<"#", " ">> \o title \o <<NL, NL>>
       \o <<"**By ">> \o Join(authors, <<",", " ">>) \o <<"**", NL, NL>>
       \o <<"## <open book> Table of Contents", NL, NL>>
       \o (IF toc # <<>> THEN TocLines(toc, chaps) ELSE ChapterListLines(chaps))
       \o <<NL>> \o Separator \o <<NL, NL>>
       \o <<IndexOpen>> \o <<"{", "t", "i", "t", "l", "e", "}">> \o InfoSuffix
       \o <<"|Book Information]]", NL>>

\* lines 326-373
create_info_page(book_metadata) ==
    LET title == Get(book_metadata, "title", UnknownBook)
        authors == Get(book_metadata, "authors", <<UnknownAuthor>>)
        \* a value that get() gives as None, or an empty one, writes no line
        optional(key, label) ==
            IF Get(book_metadata, key, None) \notin {None, Some(<<>>)}
            THEN <<label>> \o TheValue(book_metadata[key]) \o <<NL>>
            ELSE <<>>
        text(key, label) ==
            IF Get(book_metadata, key, <<>>) # <<>>
            THEN <<label>> \o book_metadata[key] \o <<NL>>
            ELSE <<>>
    IN Separator \o <<NL>>
       \o <<"title: \"">> \o title \o <<" - Info\"", NL>>
       \o <<"type: info", NL>>
       \o <<"tags:", NL>>
       \o <<"  - book/">> \o sanitize_tag(title) \o <<NL>>
       \o <<"  - metadata", NL>>
       \o Separator \o <<NL, NL>>
       \o <<"#", " ">> \o title \o <<" - Book Information", NL, NL>>
       \o <<"## <open book> Metadata", NL, NL>>
       \o <<"- **Authors:** ">> \o Join(authors, <<",", " ">>) \o <<NL>>
       \o optional("publisher", "- **Publisher:** ")
       \o optional("publication_date", "- **Publication Date:** ")
       \o text("isbn", "- **ISBN:** ")
       \o text("language", "- **Language:** ")
       \o (IF Get(book_metadata, "tags", <<>>) # <<>>
           THEN <<"- **Subjects:** ">> \o Join(book_metadata.tags, <<",", " ">>) \o <<NL>>
           ELSE <<>>)
       \o (IF Get(book_metadata, "description", None) \notin {None, Some(<<>>)}
           THEN <<NL, "## <memo> Description", NL, NL>> \o TheValue(book_metadata.description)
                \o <<NL>>
           ELSE <<>>)
       \o <<NL>> \o Separator \o <<NL, NL>>
       \o <<IndexOpen>> \o title \o IndexSuffix \o <<"|Back to Index]]", NL>>

-----------------------------------------------------------------------------
(* The vault writer: ObsidianWriter.write_book *)

\* what _html_to_markdown returns for content_html when no scratch file
\* fails and the fallback does not raise (markdown_converter.py lines
\* 54-80): the primary converter's text, or the fallback's when the primary
\* raises or gives a blank text
html_to_markdown(content_html) ==
    LET result == content_html.primary
        markdown_text == IF result.text_content = None THEN <<>>
                         ELSE TheValue(result.text_content)
    IN IF result.raises \/ Strip(markdown_text) = <<>>
       THEN basic_html_to_markdown(content_html.soup)
       ELSE markdown_text

\* pathlib's dir / name on POSIX: an absolute name replaces dir
PathJoin(dir, name) ==
    IF name # <<>> /\ name[1] = "/" THEN name ELSE dir \o <<"/">> \o name

OutputDir == <<"v", "a", "u", "l", "t">>

\* lines 73-82: the path of the book directory
create_book_directory(book_title) ==
    PathJoin(OutputDir, sanitize_filename(book_title) \o <<"_", "o", "b", "s", "i", "d", "i", "a", "n">>)

MdSuffix == <<".", "m", "d">>

\* lines 97-108
create_chapter_filename(chapter) ==
    LET num == Get(chapter, "number", 0)
        chapter_title == Get(chapter, "title", ChapterN(num))
        safe_title == sanitize_filename(chapter_title)
    IN Fmt02(num) \o <<" ", "-", " ">> \o safe_title \o MdSuffix

BookWord == <<"B", "o", "o", "k">>

\* lines 148-169: the inner create_navigation of _fix_navigation
final_navigation(idx, total_chapters, chaps, book_title) ==
    LET prev == IF idx > 0
                THEN LET prev_chapter == chaps[idx]
                         prev_filename == create_chapter_filename(prev_chapter)
                         prev_title == Get(prev_chapter, "title", PlaceholderPrevious)
                     IN << <<WriterPrevOpen>> \o SubSeq(prev_filename, 1, Len(prev_filename) - 3)
                           \o <<"|Previous: ">> \o prev_title \o <<"]]">> >>
                ELSE <<>>
        index == << <<WriterIndexOpen>> \o book_title \o IndexSuffix \o <<IndexLabel>> >>
        next == IF idx < total_chapters - 1
                THEN LET next_chapter == chaps[idx + 2]
                         next_filename == create_chapter_filename(next_chapter)
                         next_title == Get(next_chapter, "title", PlaceholderNext)
                     IN << <<LinkOpen>> \o SubSeq(next_filename, 1, Len(next_filename) - 3)
                           \o <<"|Next: ">> \o next_title \o <<"]]", WriterNextClose>> >>
                ELSE <<>>
    IN Join(prev \o index \o next, <<NavSeparator>>)

\* _fix_navigation cutting after the first line that is '---' instead of
\* the last
fix_navigation_first_separator(content, chapter_idx, total_chapters, chaps) ==
    LET metadata == IF chaps # <<>> THEN Get(chaps[1], "book_metadata", <<>>) ELSE <<>>
        book_title == Get(metadata, "title", BookWord)
        new_nav == final_navigation(chapter_idx, total_chapters, chaps, book_title)
        lines == Split(content, NL)
        separators == {i \in 1..Len(lines) : Strip(lines[i]) = Separator}
    IN IF separators # {}
       THEN LET first_separator_idx == CHOOSE i \in separators : \A j \in separators : i <= j
            IN Join(SubSeq(lines, 1, first_separator_idx) \o << <<>>, new_nav >>, <<NL>>)
       ELSE content

\* lines 142-190; chapter_idx counts from 0 as in the source
fix_navigation(content, chapter_idx, total_chapters, chaps) ==
    LET metadata == IF chaps # <<>> THEN Get(chaps[1], "book_metadata", <<>>) ELSE <<>>
        book_title == Get(metadata, "title", BookWord)
        new_nav == final_navigation(chapter_idx, total_chapters, chaps, book_title)
        lines == Split(content, NL)
        separators == {i \in 1..Len(lines) : Strip(lines[i]) = Separator}
    IN IF separators # {}
       THEN LET last_separator_idx == CHOOSE i \in separators : \A j \in separators : j <= i
            IN Join(SubSeq(lines, 1, last_separator_idx) \o << <<>>, new_nav >>, <<NL>>)
       ELSE content

\* s holds the text word somewhere
Contains(s, word) == \E i \in 1..(Len(s) - Len(word) + 1) : SubSeq(s, i, i + Len(word) - 1) = word

CoverWord == <<"c", "o", "v", "e", "r">>

\* get_images with the cover items left out
get_images_without_cover(items) ==
    SelectSeq(items, LAMBDA item : item.type = "image" /\ item.readable)

\* epub_parser.py lines 158-169: the items of type image or cover; one
\* whose get_content raises (readable FALSE) is printed and left out
get_images(items) ==
    SelectSeq(items, LAMBDA item : item.type \in {"image", "cover"} /\ item.readable)

\* epub_parser.py lines 171-187: the first cover item that can be read,
\* or else the first image with 'cover' in its name
get_cover_image(items) ==
    LET covers == SelectSeq(items, LAMBDA item : item.type = "cover" /\ item.readable)
        named == SelectSeq(get_images(items), LAMBDA item : Contains(LowerText(item.name), CoverWord))
    IN IF covers # <<>> THEN Some(covers[1])
       ELSE IF named # <<>> THEN Some(named[1])
       ELSE None

ImagesWord == <<"i", "m", "a", "g", "e", "s">>
CoverJpg == <<"c", "o", "v", "e", "r", ".", "j", "p", "g">>

\* lines 127-133: the image files, in the order of the loop
RECURSIVE ImageFiles(_, _)
ImageFiles(images, images_dir) ==
    IF images = <<>> THEN <<>>
    ELSE << [path |-> PathJoin(images_dir, sanitize_filename(PathName(Head(images).name))),
             content |-> Head(images).content] >>
         \o ImageFiles(Tail(images), images_dir)

\* the greatest number of chapters of a book
MaxChapters == 2

Dune == <<"D", "u", "n", "e">>
\* a title of three lines, the middle one a rule
RuleTitle == <<"X", NL, "-", "-", "-", NL, "Y">>
\* a title that reads as the ordinal of a chapter
OrdinalTitle == <<"0", "1">>
BookTitles == {Dune, BookWord, <<"Q", "?">>, RuleTitle, OrdinalTitle}

\* parser.metadata (epub_parser.py lines 20-63) of a book with this title:
\* one with the required entries only, one with all entries
PlainMetadata(title) ==
    [title |-> title, authors |-> <<UnknownAuthor>>, publisher |-> None, language |-> <<"e", "n">>,
     publication_date |-> None, description |-> None]
FullMetadata(title) ==
    [title |-> title, authors |-> <<Intro, Other>>, publisher |-> Some(World),
     language |-> <<"e", "n">>, isbn |-> <<"9", "7", "8">>,
     publication_date |-> Some(<<"1", "9", "6", "5">>), description |-> Some(Hello),
     tags |-> <<SomeText>>]
BookMetadata == {PlainMetadata(t) : t \in BookTitles} \cup {FullMetadata(Dune)}

\* the documents of the chapters: the title the parser found and the HTML,
\* with what the primary converter makes of it
Documents == {
    [title |-> Intro,
     content_html |-> [soup |-> SectionDoc, primary |-> [raises |-> TRUE, text_content |-> None]]],
    [title |-> <<"a", "?", "b">>,
     content_html |-> [soup |-> ParagraphDoc,
                       primary |-> [raises |-> FALSE,
                                    text_content |-> Some(<<"#", " ", "T", NL, NL, "x", NL>>)]]],
    [title |-> Other,
     content_html |-> [soup |-> ParagraphDoc, primary |-> [raises |-> FALSE, text_content |-> None]]],
    [title |-> <<"I", "n", "d", "e", "x">>,
     content_html |-> [soup |-> ParagraphDoc,
                       primary |-> [raises |-> FALSE, text_content |-> Some(<<"y">>)]]]
}

\* parser.get_chapters() for these documents: numbered from 1 in order
ChaptersOf(docs) ==
    [i \in 1..Len(docs) |->
        [number |-> i, title |-> docs[i].title, content_html |-> docs[i].content_html,
         content |-> get_text(El("[document]", docs[i].content_html.soup)),
         item_id |-> i, file_name |-> NameCh1]]

\* parser.get_toc(): no entry, or a section and one entry below it
Tocs == {<<>>, << [title |-> World, level |-> 0, href |-> None],
                  [title |-> <<"I", "N", "T", "R", "O", "!">>, level |-> 1, href |-> None] >>}

\* the items of the archive (book.get_items()): none; two images, the
\* second with 'cover' in its name; a document and a cover item; a cover
\* item whose content cannot be read and an image; one image whose content
\* cannot be read
ItemLists == {
    <<>>,
    << [name |-> <<"i", "m", "g", "/", "a", ".", "p", "n", "g">>, type |-> "image", content |-> "a",
        readable |-> TRUE],
       [name |-> <<"C", "o", "v", "e", "r", ".", "p", "n", "g">>, type |-> "image", content |-> "b",
        readable |-> TRUE] >>,
    << [name |-> <<"t", ".", "x", "h", "t", "m", "l">>, type |-> "document", content |-> "c",
        readable |-> TRUE],
       [name |-> <<"f", ".", "j", "p", "g">>, type |-> "cover", content |-> "d", readable |-> TRUE] >>,
    << [name |-> <<"f", ".", "j", "p", "g">>, type |-> "cover", content |-> "d", readable |-> FALSE],
       [name |-> <<"b", ".", "g", "i", "f">>, type |-> "image", content |-> "e", readable |-> TRUE] >>,
    << [name |-> <<"b", ".", "g", "i", "f">>, type |-> "image", content |-> "e", readable |-> FALSE] >>
}

WInit ==
    /\ w_pc = "directory"
    /\ w_metadata \in BookMetadata
    /\ w_chapters \in {ChaptersOf(docs) : docs \in SeqsUpTo(Documents, MaxChapters)}
    /\ w_toc \in Tocs
    /\ w_items \in ItemLists
    /\ include_images \in BOOLEAN
    /\ book_dir = <<>>
    /\ w_idx = 0
    /\ w_dirs = {}
    /\ w_files = <<>>
    /\ WOthersIdle

\* line 37 and _create_book_directory
CreateBookDirectory ==
    /\ w_pc = "directory"
    /\ book_dir' = create_book_directory(w_metadata.title)
    /\ w_dirs' = w_dirs \cup {book_dir'}
    /\ w_pc' = "images"
    /\ UNCHANGED <<w_metadata, w_chapters, w_toc, w_items, include_images, w_idx, w_files, wOthers>>

\* lines 40-41 and _write_images (lines 115-140); what a file is of (an
\* image, the cover, the index, the info page, a chapter and its number)
\* is kept with it
WriteImages ==
    /\ w_pc = "images"
    /\ LET images == get_images(w_items)
           images_dir == PathJoin(book_dir, ImagesWord)
           cover == get_cover_image(w_items)
       IN IF include_images /\ images # <<>>
          THEN /\ w_dirs' = w_dirs \cup {images_dir}
               /\ w_files' = w_files
                     \o [i \in 1..Len(images) |->
                            [of |-> "image", number |-> 0, path |-> ImageFiles(images, images_dir)[i].path,
                             content |-> <<ImageFiles(images, images_dir)[i].content>>]]
                     \o (IF cover # None
                         THEN << [of |-> "cover", number |-> 0, path |-> PathJoin(book_dir, CoverJpg),
                                  content |-> <<TheValue(cover).content>>] >>
                         ELSE <<>>)
          ELSE UNCHANGED <<w_dirs, w_files>>
    /\ w_pc' = "index"
    /\ UNCHANGED <<w_metadata, w_chapters, w_toc, w_items, include_images, book_dir, w_idx, wOthers>>

\* lines 44-45
WriteIndex ==
    /\ w_pc = "index"
    /\ LET index_content == create_index_page(w_metadata, w_chapters, w_toc)
           path == PathJoin(book_dir, w_metadata.title \o IndexSuffix \o MdSuffix)
       IN w_files' = Append(w_files, [of |-> "index", number |-> 0, path |-> path, content |-> index_content])
    /\ w_pc' = "info"
    /\ UNCHANGED <<w_metadata, w_chapters, w_toc, w_items, include_images, book_dir, w_idx,
                   w_dirs, wOthers>>

\* lines 48-49
WriteInfo ==
    /\ w_pc = "info"
    /\ LET info_content == create_info_page(w_metadata)
           path == PathJoin(book_dir, w_metadata.title \o InfoSuffix \o MdSuffix)
       IN w_files' = Append(w_files, [of |-> "info", number |-> 0, path |-> path, content |-> info_content])
    /\ w_pc' = "chapters"
    /\ UNCHANGED <<w_metadata, w_chapters, w_toc, w_items, include_images, book_dir, w_idx,
                   w_dirs, wOthers>>

\* lines 52-69: one round of the loop over the chapters
WriteChapter ==
    /\ w_pc = "chapters"
    /\ w_idx < Len(w_chapters)
    /\ LET total_chapters == Len(w_chapters)
           chapter == w_chapters[w_idx + 1]
           first_pass == convert_chapter(chapter, w_metadata.title,
                                         html_to_markdown(chapter.content_html))
           markdown_content == fix_navigation(first_pass, w_idx, total_chapters, w_chapters)
           chapter_path == PathJoin(book_dir, create_chapter_filename(chapter))
       IN w_files' = Append(w_files, [of |-> "chapter", number |-> chapter.number, path |-> chapter_path,
                                      content |-> markdown_content])
    /\ w_idx' = w_idx + 1
    /\ UNCHANGED <<w_pc, w_metadata, w_chapters, w_toc, w_items, include_images, book_dir,
                   w_dirs, wOthers>>

\* line 71
WriteBookReturn ==
    /\ w_pc = "chapters"
    /\ w_idx = Len(w_chapters)
    /\ w_pc' = "returned"
    /\ UNCHANGED <<w_metadata, w_chapters, w_toc, w_items, include_images, book_dir, w_idx,
                   w_dirs, w_files, wOthers>>

WNext == CreateBookDirectory \/ WriteImages \/ WriteIndex \/ WriteInfo \/ WriteChapter
         \/ WriteBookReturn

SpecWrite == WInit /\ [][WNext]_vars

\* the files written for chapter n, and the one written as the index
ChapterFiles(n) == SelectSeq(w_files, LAMBDA f : f.of = "chapter" /\ f.number = n)
IndexFiles == SelectSeq(w_files, LAMBDA f : f.of = "index")

\* the last line of a document
NavLine(content) == LET lines == Split(content, NL) IN lines[Len(lines)]

\* the elements that end the target of a link
LabelTokens == {"|Previous: ", "|Next: ", IndexLabel, PreviousChapterLabel, NextChapterLabel}

\* the target of the first link of line that one of openers opens
TargetOf(line, openers) ==
    LET at == {i \in 1..Len(line) : line[i] \in openers}
    IN IF at = {} THEN None
       ELSE LET p == CHOOSE i \in at : \A j \in at : i <= j
                ends == {i \in (p + 1)..Len(line) : line[i] \in LabelTokens}
                q == IF ends = {} THEN Len(line) + 1
                     ELSE CHOOSE i \in ends : \A j \in ends : i <= j
            IN Some(SubSeq(line, p + 1, q - 1))

\* the path of the document a link of a file of the book directory names
LinkedPath(target) == PathJoin(book_dir, TheValue(target) \o MdSuffix)

\* a link of the first-pass render is in the document
HasPlaceholder(content) ==
    \E n \in 0..(MaxChapters + 2) :
        \/ Contains(content, <<PrevOpen>> \o format_chapter_filename(n, PlaceholderPrevious))
        \/ Contains(content, <<LinkOpen>> \o format_chapter_filename(n, PlaceholderNext))

\* C2: when write_book has returned, each chapter is written once; the last
\* line of chapter i has a previous link iff i > 1, to the file of chapter
\* i-1, and a next link iff i is not the last, to the file of chapter i+1;
\* and no link of the first-pass render is left in the document.
C2_NavigationIsFinalAndNoPlaceholderSurvives ==
    w_pc = "returned" =>
        \A i \in 1..Len(w_chapters) :
            /\ Len(ChapterFiles(i)) = 1
            /\ LET file == ChapterFiles(i)[1]
                   prev == TargetOf(NavLine(file.content), {PrevOpen, WriterPrevOpen})
                   next == TargetOf(NavLine(file.content), {LinkOpen})
               IN /\ (prev # None) <=> (i > 1)
                  /\ prev # None /\ i > 1 => LinkedPath(prev) = ChapterFiles(i - 1)[1].path
                  /\ (next # None) <=> (i < Len(w_chapters))
                  /\ next # None /\ i < Len(w_chapters) => LinkedPath(next) = ChapterFiles(i + 1)[1].path
                  /\ ~HasPlaceholder(file.content)

\* C3: when write_book has returned, the last line of every chapter file
\* has a link to the index, and that link names the file write_book wrote
\* the index to.
C3_IndexLinkNamesTheIndexFile ==
    w_pc = "returned" =>
        \A i \in 1..Len(w_files) :
            w_files[i].of = "chapter" =>
                LET index == TargetOf(NavLine(w_files[i].content), {IndexOpen, WriterIndexOpen})
                IN /\ index # None
                   /\ LinkedPath(index) = IndexFiles[1].path

\* the rendering the markup rules of lines 103-119 give an inline element
InlineMarkup(element) ==
    LET text == get_text(element)
    IN IF element.name \in {"strong", "b"} THEN <<"*", "*">> \o text \o <<"*", "*">>
       ELSE IF element.name \in {"em", "i"} THEN <<"*">> \o text \o <<"*">>
       ELSE IF element.name = "code" THEN <<BackTick>> \o text \o <<BackTick>>
       ELSE <<"[">> \o text \o <<"]", "(">> \o element.href \o <<")">>

\* the renderings of the strong/b, em/i, code and a elements of nodes that
\* are below a p, li or blockquote (inBlock: nodes are below one already)
RECURSIVE InlineInBlocks(_, _)
InlineInBlocks(nodes, inBlock) ==
    UNION { (IF inBlock /\ ( \/ nodes[k].name \in {"strong", "b", "em", "i", "code"}
                             \/ nodes[k].name = "a" /\ nodes[k].href # <<>> )
             THEN {InlineMarkup(nodes[k])} ELSE {})
            \cup InlineInBlocks(nodes[k].children,
                                inBlock \/ nodes[k].name \in {"p", "li", "blockquote"})
          : k \in 1..Len(nodes) }

\* C11 (as claimed): when _html_to_markdown has returned what the structural
\* fallback made of the document, every strong/b, em/i, code and a element
\* that is below a p, li or blockquote is in the result with its markup, and
\* <body><p>Hello <strong>world</strong></p></body> gives 'Hello **world**'.
C11_InlineMarkupKeptInsideBlocks ==
    (c_pc = "returned" /\ c_log # <<>>) =>
        /\ \A m \in InlineInBlocks(c_html.soup, FALSE) : Contains(TheValue(c_ret), m)
        /\ c_html.soup = ParagraphDoc => TheValue(c_ret) = Hello \o <<"*", "*">> \o World \o <<"*", "*">>

\* the file written as the info document
InfoFiles == SelectSeq(w_files, LAMBDA f : f.of = "info")

\* C12 (as claimed): when write_book has returned, the index and the info
\* document are each written once, in the book directory, under the
\* sanitized book title followed by ' - Index.md' and ' - Info.md'.
C12_IndexAndInfoUnderSanitizedTitle ==
    w_pc = "returned" =>
        /\ Len(IndexFiles) = 1
        /\ Len(InfoFiles) = 1
        /\ IndexFiles[1].path
              = book_dir \o <<"/">> \o sanitize_filename(w_metadata.title) \o IndexSuffix \o MdSuffix
        /\ InfoFiles[1].path
              = book_dir \o <<"/">> \o sanitize_filename(w_metadata.title) \o InfoSuffix \o MdSuffix

\* the targets of the chapter links of an index document: for each line
\* with a link of the contents, what stands between its '[[' and the '|'
ChapterLinkTargets(content) ==
    LET lines == Split(content, NL)
        linked == SelectSeq(lines, LAMBDA line : \E p \in 1..Len(line) : line[p] = LinkOpen)
    IN [k \in 1..Len(linked) |->
           LET line == linked[k]
               p == CHOOSE i \in 1..Len(line) : line[i] = LinkOpen
               bars == {i \in (p + 1)..Len(line) : line[i] = "|"}
               q == IF bars = {} THEN Len(line) + 1 ELSE CHOOSE i \in bars : \A j \in bars : i <= j
           IN SubSeq(line, p + 1, q - 1)]

\* C13 (as claimed): when write_book has returned, every chapter link of
\* the index names a chapter by its two-digit ordinal and its target is the
\* name, without extension, of the file that chapter was written to; with
\* no TOC every chapter has its link, in order.
C13_IndexLinksNameTheChapterFiles ==
    w_pc = "returned" =>
        LET targets == ChapterLinkTargets(IndexFiles[1].content)
        IN /\ \A k \in 1..Len(targets) :
                 \E n \in 1..Len(w_chapters) :
                     /\ SubSeq(targets[k], 1, 2) = Fmt02(n)
                     /\ PathJoin(book_dir, targets[k] \o MdSuffix) = ChapterFiles(n)[1].path
           /\ w_toc = <<>> =>
                 /\ Len(targets) = Len(w_chapters)
                 /\ \A n \in 1..Len(w_chapters) :
                        PathJoin(book_dir, targets[n] \o MdSuffix) = ChapterFiles(n)[1].path

\* the spine entry names a document whose processing raises
IsFailingDocument(spine_id) ==
    spine_id \in DOMAIN items_map /\ items_map[spine_id].fails

\* C14: get_chapters never ends by an exception; when it has returned, it
\* has gone through the whole spine, no document whose processing raised is
\* a chapter, every document with plain text that stands after such a
\* document in the spine is a chapter, and the chapters are numbered
\* 1, 2, ... without gap.
C14_FailedDocumentIsDroppedAndTheRestProcessed ==
    /\ p_pc # "raised"
    /\ p_pc = "done" =>
          /\ p_i = Len(spine)
          /\ \A k \in 1..Len(chapters) :
                chapters[k].number = k /\ ~IsFailingDocument(chapters[k].item_id)
          /\ \A j \in 1..Len(spine) : \A l \in (j + 1)..Len(spine) :
                IsFailingDocument(spine[j]) /\ HasPlainText(spine[l]) =>
                    \E k \in 1..Len(chapters) : chapters[k].item_id = spine[l]

\* a spine of a chapter, a document whose processing raises and a chapter
\* has been read: the first and the third are chapters 1 and 2
C14_Witness ==
    /\ p_pc = "done"
    /\ Len(spine) = 3
    /\ HasPlainText(spine[1]) /\ IsFailingDocument(spine[2]) /\ HasPlainText(spine[3])
    /\ Len(chapters) = 2
    /\ chapters[1].item_id = spine[1] /\ chapters[1].number = 1
    /\ chapters[2].item_id = spine[3] /\ chapters[2].number = 2

\* a file was written to this path; the directory was made
IsWritten(path) == \E i \in 1..Len(w_files) : w_files[i].path = path
ImagesDirMade == PathJoin(book_dir, ImagesWord) \in w_dirs
CoverWritten == IsWritten(PathJoin(book_dir, CoverJpg))

\* the archive has an image that is not the cover asset
HasNonCoverImage ==
    \E i \in 1..Len(w_items) :
        w_items[i].type = "image" /\ Some(w_items[i]) # get_cover_image(w_items)

\* the archive has an image or a cover item whose content can be read
HasReadableImageOrCover ==
    \E i \in 1..Len(w_items) : w_items[i].type \in {"image", "cover"} /\ w_items[i].readable

-----------------------------------------------------------------------------
(* MarkdownConverter.convert_chapter on one chapter, from the return of     *)
(* _html_to_markdown on                                                     *)

\* the greatest number of pieces of a converted text
MaxPieces == 4

FootnoteMarker == <<"[", "1", "2", "]">>
FootnoteReference == <<"[", "^", "1", "2", "]">>

\* the pieces the converted texts are made of: a heading mark, a line
\* break, a word, a footnote marker, a chapter reference, a word that is a
\* title, a list mark
MarkupPieces == { <<"#", " ">>, <<NL>>, <<"x">>, FootnoteMarker, ChapterN(1), Intro, <<"-", " ">> }

\* what _html_to_markdown may have returned
Markups == {Concat(pieces) : pieces \in SeqsUpTo(MarkupPieces, MaxPieces)}

\* the titles of the chapter
ChapterTitles == {ChapterN(1), Intro, <<"I", "n", "t", "r", "o", "!">>}

MInit ==
    /\ m_pc = "post_process"
    /\ m_chapter \in [title : ChapterTitles, number : {1}]
    /\ m_markdown \in Markups
    /\ m_content = <<>>
    /\ m_doc = <<>>
    /\ MOthersIdle

\* line 35
PostProcessMarkdown ==
    /\ m_pc = "post_process"
    /\ m_content' = post_process_markdown(m_markdown, BookWord)
    /\ m_pc' = "assemble"
    /\ UNCHANGED <<m_chapter, m_markdown, m_doc, mOthers>>

\* lines 38-52
ConvertChapterReturn ==
    /\ m_pc = "assemble"
    /\ m_doc' = convert_chapter(m_chapter, BookWord, m_markdown)
    /\ m_pc' = "returned"
    /\ UNCHANGED <<m_chapter, m_markdown, m_content, mOthers>>

MNext == PostProcessMarkdown \/ ConvertChapterReturn

SpecChapter == MInit /\ [][MNext]_vars

\* C16 (as claimed): after post-processing, the footnote marker [12] of the
\* converted text is no longer in the text and the reference [^12] is.
C16_FootnoteMarkerBecomesReference ==
    (m_pc \in {"assemble", "returned"} /\ Contains(m_markdown, FootnoteMarker)) =>
        /\ Contains(m_content, FootnoteReference)
        /\ ~Contains(m_content, FootnoteMarker)

\* a line of letters only: no rule of the post-processing is about it
IsPlainLine(line) == line # <<>> /\ \A i \in 1..Len(line) : IsLetter(line[i])

\* a line of one to six '#', a space and letters
IsPlainHeadingLine(line) ==
    LET h == RunEnd(line, 1, {"#"})
    IN /\ h \in 1..6
       /\ Len(line) > h + 1
       /\ line[h + 1] = " "
       /\ IsPlainLine(SubSeq(line, h + 2, Len(line)))

\* C17 (as claimed): after post-processing, for every heading line of the
\* converted text that a non-blank line follows (both of letters only),
\* the text has the heading line as it was, one blank line, and the line
\* that followed as it was.
C17_BlankLineAfterHeadingKeepsTheText ==
    m_pc \in {"assemble", "returned"} =>
        LET lines == Split(m_markdown, NL)
        IN \A k \in 1..(Len(lines) - 1) :
              IsPlainHeadingLine(lines[k]) /\ IsPlainLine(lines[k + 1]) =>
                  Contains(m_content, lines[k] \o <<NL, NL>> \o lines[k + 1])

\* one of the first five lines of content is a heading whose text is the
\* title, case and punctuation apart
OwnHeadingInFirstLines(content, title) ==
    LET all == Split(content, NL)
        lines == SubSeq(all, 1, IF Len(all) < 5 THEN Len(all) ELSE 5)
    IN \E k \in 1..Len(lines) :
          /\ lines[k] # <<>> /\ lines[k][1] = "#"
          /\ titles_match(SubSeq(lines[k], RunEnd(lines[k], 1, {"#"}) + 1, Len(lines[k])), title)

\* str.startswith(prefix)
StartsWith(s, prefix) == Len(s) >= Len(prefix) /\ SubSeq(s, 1, Len(prefix)) = prefix

\* the document has the generated heading between frontmatter and text
HeadingInserted ==
    LET fm == create_frontmatter(m_chapter, BookWord) \o <<NL, NL>>
        generated == <<"#", " ">> \o m_chapter.title \o <<NL, NL>> \o m_content
    IN SubSeq(m_doc, Len(fm) + 1, Len(fm) + Len(generated)) = generated

\* C18 (as claimed): when convert_chapter has returned, the document has
\* the generated heading iff none of the first five lines of the processed
\* text is a heading of the chapter's title, case and punctuation apart;
\* a text that starts with the heading of the title gets no second one.
C18_NoDuplicateHeading ==
    m_pc = "returned" =>
        /\ HeadingInserted <=> ~OwnHeadingInFirstLines(m_content, m_chapter.title)
        /\ StartsWith(m_markdown, <<"#", " ">> \o m_chapter.title \o <<NL>>) => ~HeadingInserted

\* str.endswith(suffix)
EndsWith(s, suffix) ==
    Len(s) >= Len(suffix) /\ SubSeq(s, Len(s) - Len(suffix) + 1, Len(s)) = suffix

\* C19 (as claimed): when write_book has returned, the index document ends
\* with the link to the info document, whose target is the book title
\* followed by ' - Info'.
C19_IndexEndsWithLinkToInfoOfTheBook ==
    w_pc = "returned" =>
        EndsWith(IndexFiles[1].content,
                 <<IndexOpen>> \o w_metadata.title \o InfoSuffix \o <<"|Book Information]]", NL>>)

\* the string the file-name rule makes of a name: the stem with '_' and '-'
\* as spaces, without the digits at its end, stripped
FileNameRuleString(name) ==
    LET file_name == PathStem(name)
        spaced == [i \in 1..Len(file_name) |->
                      IF file_name[i] \in {"_", "-"} THEN " " ELSE file_name[i]]
    IN Strip(RStripFrom(spaced, Digits, Len(spaced)))

\* C20 (as claimed): the title of a document without h1, h2, h3 and title
\* element is the title-cased string of the file-name rule if that string
\* is non-empty and not purely numeric, and 'Chapter N' otherwise; it is
\* never purely numeric.
C20_FileNameRuleGivesNoNumericTitle ==
    (t_pc = "done" /\ NoHeadingNoTitle(t_item.elems)) =>
        LET produced == FileNameRuleString(t_item.file_name)
        IN /\ ~IsDigitStr(t_out)
           /\ t_out = IF produced # <<>> /\ ~IsDigitStr(produced)
                      THEN TitleCase(produced)
                      ELSE ChapterN(t_num + 1)

-----------------------------------------------------------------------------
(* ObsidianWriter._fix_navigation on one document                          *)

\* the greatest number of chapters of the book the document belongs to
MaxNavChapters == 2

\* chapter titles, one of two lines
NavChapterTitles == {Intro, <<"a", "?", "b">>, <<"A", NL, "B">>}

\* parser.get_chapters() of a book whose chapters have these titles
NavChaptersOf(titles) ==
    [i \in 1..Len(titles) |->
        [number |-> i, title |-> titles[i], content_html |-> <<>>, content |-> SomeText,
         item_id |-> i, file_name |-> NameCh1]]

\* what _html_to_markdown may have returned for the chapter: a word, a text
\* with the '---' of an hr between two words, a rule alone, a heading with
\* a rule below it, nothing
NavBodies == { <<"x">>,
               <<"x", NL, NL, "-", "-", "-", NL, NL, "y">>,
               <<"-", "-", "-">>,
               <<"#", " ", "T", NL, NL, "-", "-", "-">>,
               <<>> }

\* texts that convert_chapter did not make: without a line that is '---',
\* and with such lines
RawContents == { <<>>, <<"x">>, <<"x", NL, "-", "-", NL, "y">>,
                 <<"-", "-", "-", "-">>,
                 <<"x", NL, " ", "-", "-", "-", " ", NL, "y">>,
                 <<"-", "-", "-", NL, "x", NL, "-", "-", "-">> }

\* where the document comes from: convert_chapter with this book title and
\* this converted text, or a text as it stands
NavOrigins ==
    [kind : {"assembled"}, book_title : {Dune, <<"Q", "?">>, RuleTitle}, markdown : NavBodies]
    \cup [kind : {"raw"}, book_title : {<<>>}, markdown : RawContents]

NInit ==
    /\ n_pc = "fix"
    /\ n_origin \in NavOrigins
    /\ n_chapters \in {NavChaptersOf(titles) :
                          titles \in SeqsUpTo(NavChapterTitles, MaxNavChapters) \ {<<>>}}
    /\ n_idx \in 0..(Len(n_chapters) - 1)
    /\ n_content = IF n_origin.kind = "assembled"
                   THEN convert_chapter(n_chapters[n_idx + 1], n_origin.book_title,
                                        n_origin.markdown)
                   ELSE n_origin.markdown
    /\ n_out = <<>>
    /\ NOthersIdle

\* write_book line 61: the call of _fix_navigation
FixNavigation ==
    /\ n_pc = "fix"
    /\ n_out' = fix_navigation(n_content, n_idx, Len(n_chapters), n_chapters)
    /\ n_pc' = "done"
    /\ UNCHANGED <<n_origin, n_content, n_idx, n_chapters, nOthers>>

NNext == FixNavigation

SpecFixNavigation == NInit /\ [][NNext]_vars

\* the text has a line break
HasLineBreak(text) == \E i \in 1..Len(text) : text[i] = NL

\* the text has a line that is '---', white space at its ends apart
HasSeparatorLine(text) ==
    LET lines == Split(text, NL)
    IN \E i \in 1..Len(lines) : Strip(lines[i]) = Separator

\* C21: when _fix_navigation has returned: for a document that
\* convert_chapter made with a book title of one line, the document is
\* some text that ends with the separator line, a blank line and the
\* first-pass navigation, and the result is the same text up to and with
\* that separator line, a blank line and the new navigation; for a text
\* without a '---' line the result is the text.
C21_FixNavigationKeepsAllUpToTheSeparator ==
    n_pc = "done" =>
        /\ (n_origin.kind = "assembled" /\ ~HasLineBreak(n_origin.book_title)) =>
              LET old_nav == <<NL, NL>> \o create_navigation(n_idx + 1, n_origin.book_title)
                  kept == SubSeq(n_content, 1, Len(n_content) - Len(old_nav))
                  new_nav == final_navigation(n_idx, Len(n_chapters), n_chapters, BookWord)
              IN /\ n_content = kept \o old_nav
                 /\ EndsWith(kept, <<NL>> \o Separator)
                 /\ n_out = kept \o <<NL, NL>> \o new_nav
        /\ ~HasSeparatorLine(n_content) => n_out = n_content

\* the navigation of the second of two chapters has been fixed in a
\* document whose text has the '---' of an hr: the text is kept
C21_Witness ==
    /\ n_pc = "done"
    /\ n_origin.kind = "assembled"
    /\ n_origin.book_title = Dune
    /\ n_origin.markdown = <<"x", NL, NL, "-", "-", "-", NL, NL, "y">>
    /\ n_idx = 1
    /\ Contains(n_out, <<"x", NL, NL, "-", "-", "-", NL, NL, "y", NL, NL, "-", "-", "-", NL, NL,
                         WriterPrevOpen>>)
    /\ n_out # n_content

\* the documents written: the index, the info document and the chapters
MarkdownFiles == SelectSeq(w_files, LAMBDA f : f.of \in {"index", "info", "chapter"})

\* C22 (as claimed): when write_book has returned for a book of K chapters,
\* K + 2 documents are written and their paths differ pairwise: no
\* document written earlier in the run is overwritten by a later one.
C22_WrittenPathsArePairwiseDistinct ==
    w_pc = "returned" =>
        /\ Len(MarkdownFiles) = Len(w_chapters) + 2
        /\ \A i, j \in 1..Len(MarkdownFiles) :
              i # j => MarkdownFiles[i].path # MarkdownFiles[j].path

====
